---- MODULE Spec2Model ----
(***************************************************************************)
(* A model of the chirpy HTTP server's authentication core: access tokens  *)
(* (makeJWT / validateJWT), bearer extraction (getBearerToken) and the     *)
(* refresh-token lifecycle (login, refresh, revoke) over the users and     *)
(* refresh_tokens tables.                                                  *)
(*                                                                         *)
(* Strings are sequences of chunks <<tag, value>>.  A chunk is either one  *)
(* character ("c"), a whole well-formed compact JWT ("jwt", carrying its   *)
(* decoded header, payload and signing key), a 64-character hex string     *)
(* ("hex"), or the JavaScript value undefined.                             *)
(***************************************************************************)
EXTENDS Integers, Sequences, FiniteSets, TLC

VARIABLES
    now,            \* Date.now(), in clock units
    ticks,          \* how often the clock has advanced
    issued,         \* token codec on its own: the token under test
    checked,        \* token codec on its own: the last validateJWT call
    platform,       \* config.platform
    fileserverHits, \* config.fileserverHits
    users,          \* rows of the users table
    refreshTokens,  \* rows of the refresh_tokens table
    reqs,           \* requests in flight, between two awaited statements
    last,           \* the response sent by the step just taken, if any
    retired,        \* ids and token strings of rows that were deleted, and the
                    \* access tokens that were minted with the deleted records
    chirps          \* rows of the chirps table

clock == <<now, ticks>>
harness == <<issued, checked>>
config == <<platform, fileserverHits>>
db == <<users, refreshTokens, chirps>>
http == <<platform, fileserverHits, users, refreshTokens, reqs, last, retired, chirps>>
vars == <<now, ticks, issued, checked, platform, fileserverHits, users, refreshTokens, reqs, last, retired,
          chirps>>

----------------------------------------------------------------------------
(* Bounds of the model *)

\* resolution of the model clock: clock units per second
SubsPerSec == 2
\* number of clock advances in a run of the server
MaxTicks == 1
\* number of clock advances in a run of the token codec on its own
MaxJwtTicks == 3

Subjects == {"u1", "u2"}
Secrets == {"k1", "k2"}
Lifetimes == {0, 1, 3600}

----------------------------------------------------------------------------
(* Time *)

\* Math.floor(Date.now() / 1000)
Sec(t) == t \div SubsPerSec

\* the amounts by which the clock advances between two events
TickSteps == {1, 3600 * SubsPerSec, 60 * 24 * 60 * 60 * SubsPerSec}

----------------------------------------------------------------------------
(* Strings *)

Ch(c) == <<"c", c>>
JwtChunk(j) == <<"jwt", j>>
HexChunk(h) == <<"hex", h>>
Undefined == << <<"undefined", "">> >>

\* a string literal, given as the sequence of its characters
Str(cs) == [i \in DOMAIN cs |-> Ch(cs[i])]

IsWs(ch) == ch \in {Ch(" "), Ch("\t"), Ch("\n")}

RECURSIVE TrimStart(_)
TrimStart(s) ==
    IF s = <<>> THEN <<>>
    ELSE IF IsWs(Head(s)) THEN TrimStart(Tail(s))
    ELSE s

RECURSIVE TrimEnd(_)
TrimEnd(s) ==
    IF s = <<>> THEN <<>>
    ELSE IF IsWs(s[Len(s)]) THEN TrimEnd(SubSeq(s, 1, Len(s) - 1))
    ELSE s

\* String.prototype.trim
Trim(s) == TrimEnd(TrimStart(s))

\* String.prototype.startsWith
StartsWith(s, p) == Len(s) >= Len(p) /\ SubSeq(s, 1, Len(p)) = p

\* String.prototype.substring(n)
Substring(s, n) == SubSeq(s, n + 1, Len(s))

----------------------------------------------------------------------------
(* Results of calls that may throw *)

Ok(v) == [ok |-> TRUE, val |-> v]
Throw(c, m) == [ok |-> FALSE, cls |-> c, msg |-> m]

\* the prototype chains of the error classes (jsonwebtoken derives
\* TokenExpiredError and NotBeforeError from JsonWebTokenError)
Superclasses(c) ==
    CASE c = "TokenExpiredError" -> {"TokenExpiredError", "JsonWebTokenError", "Error"}
      [] c = "NotBeforeError" -> {"NotBeforeError", "JsonWebTokenError", "Error"}
      [] c = "JsonWebTokenError" -> {"JsonWebTokenError", "Error"}
      [] c \in {"BadRequestError", "UnauthorizedError", "ForbiddenError", "NotFoundError"}
            -> {c, "HttpError", "Error"}
      [] OTHER -> {c, "Error"}

InstanceOf(c, base) == base \in Superclasses(c)

----------------------------------------------------------------------------
(* Bearer extraction *)

BearerPrefix == Str(<<"B", "e", "a", "r", "e", "r", " ">>)

\* getBearerToken that tests only !authHeader
getBearerToken_noBlankTest(authHeader) ==
    IF authHeader = Undefined \/ authHeader = <<>>
    THEN Throw("Error", "Authorization header is missing")
    ELSE LET trimmedHeader == Trim(authHeader) IN
         IF ~StartsWith(trimmedHeader, BearerPrefix)
         THEN Throw("Error", "Authorization header must start with 'Bearer '")
         ELSE Ok(Trim(Substring(trimmedHeader, 7)))

\* getBearerToken that accepts the scheme in lower case as well
getBearerToken_anyCase(authHeader) ==
    IF authHeader = Undefined \/ authHeader = <<>> \/ Trim(authHeader) = <<>>
    THEN Throw("Error", "Authorization header is missing")
    ELSE LET trimmedHeader == Trim(authHeader) IN
         IF /\ ~StartsWith(trimmedHeader, BearerPrefix)
            /\ ~StartsWith(trimmedHeader, Str(<<"b", "e", "a", "r", "e", "r", " ">>))
         THEN Throw("Error", "Authorization header must start with 'Bearer '")
         ELSE Ok(Trim(Substring(trimmedHeader, 7)))

\* getBearerToken that does not trim what follows the prefix
getBearerToken_noInnerTrim(authHeader) ==
    IF authHeader = Undefined \/ authHeader = <<>> \/ Trim(authHeader) = <<>>
    THEN Throw("Error", "Authorization header is missing")
    ELSE LET trimmedHeader == Trim(authHeader) IN
         IF ~StartsWith(trimmedHeader, BearerPrefix)
         THEN Throw("Error", "Authorization header must start with 'Bearer '")
         ELSE Ok(Substring(trimmedHeader, 7))

\* getBearerToken that looks for the prefix in the header as it came
getBearerToken_noOuterTrim(authHeader) ==
    IF authHeader = Undefined \/ authHeader = <<>> \/ Trim(authHeader) = <<>>
    THEN Throw("Error", "Authorization header is missing")
    ELSE IF ~StartsWith(authHeader, BearerPrefix)
         THEN Throw("Error", "Authorization header must start with 'Bearer '")
         ELSE Ok(Trim(Substring(authHeader, 7)))

getBearerToken(authHeader) ==
    IF authHeader = Undefined \/ authHeader = <<>> \/ Trim(authHeader) = <<>>
    THEN Throw("Error", "Authorization header is missing")
    ELSE LET trimmedHeader == Trim(authHeader) IN
         IF ~StartsWith(trimmedHeader, BearerPrefix)
         THEN Throw("Error", "Authorization header must start with 'Bearer '")
         ELSE Ok(Trim(Substring(trimmedHeader, 7)))

----------------------------------------------------------------------------
(* Access tokens *)

NoSub == "<absent>"
NoNbf == <<>>

\* jwt.sign(payload, secret): HS256 over the payload, as one compact JWT
jwtSign(payload, secret) ==
    << JwtChunk([alg |-> "HS256", iss |-> payload.iss, sub |-> payload.sub,
                 iat |-> payload.iat, exp |-> payload.exp, nbf |-> NoNbf,
                 key |-> secret]) >>

\* makeJWT with the lifetime left out of exp
makeJWT_expAtIssue(userID, expiresIn, secret, t) ==
    LET n == Sec(t) IN
    jwtSign([iss |-> "chirpy", sub |-> userID, iat |-> n, exp |-> n], secret)

\* makeJWT that takes Date.now() for the time in seconds
makeJWT_rawClock(userID, expiresIn, secret, t) ==
    jwtSign([iss |-> "chirpy", sub |-> userID, iat |-> t, exp |-> t + expiresIn], secret)

makeJWT(userID, expiresIn, secret, t) ==
    LET n == Sec(t) IN
    jwtSign([iss |-> "chirpy", sub |-> userID, iat |-> n, exp |-> n + expiresIn],
            secret)

\* a string that splits into three base64url segments that decode
WellFormedJwt(tokenString) == Len(tokenString) = 1 /\ tokenString[1][1] = "jwt"

\* jwt.verify(token, secret) at clock time t
jwtVerify(tokenString, secret, t) ==
    IF ~WellFormedJwt(tokenString)
    THEN Throw("JsonWebTokenError", "jwt malformed")
    ELSE LET j == tokenString[1][2] IN
         IF j.alg = "none"
         THEN Throw("JsonWebTokenError", "jwt signature is required")
         ELSE IF j.alg \notin {"HS256", "HS384", "HS512"}
         THEN Throw("JsonWebTokenError", "invalid algorithm")
         ELSE IF j.key # secret
         THEN Throw("JsonWebTokenError", "invalid signature")
         ELSE IF j.nbf # NoNbf /\ j.nbf[1] > Sec(t)
         THEN Throw("NotBeforeError", "jwt not active")
         ELSE IF Sec(t) >= j.exp
         THEN Throw("TokenExpiredError", "jwt expired")
         ELSE Ok(j)

\* !decoded.sub
Falsy(s) == s = NoSub \/ s = ""

\* validateJWT that decodes the payload without verifying the signature
validateJWT_decodeOnly(tokenString, secret, t) ==
    IF ~WellFormedJwt(tokenString) THEN Throw("Error", "Invalid token")
    ELSE LET j == tokenString[1][2] IN
         IF Sec(t) >= j.exp THEN Throw("Error", "Invalid token")
         ELSE IF Falsy(j.sub) THEN Throw("Error", "Token does not contain a subject")
         ELSE Ok(j.sub)

\* validateJWT that accepts a token only in the second it was issued in
validateJWT_maxAge(tokenString, secret, t) ==
    LET v == jwtVerify(tokenString, secret, t) IN
    IF ~v.ok \/ Sec(t) > v.val.iat THEN Throw("Error", "Invalid token")
    ELSE IF Falsy(v.val.sub) THEN Throw("Error", "Token does not contain a subject")
    ELSE Ok(v.val.sub)

validateJWT(tokenString, secret, t) ==
    LET v == jwtVerify(tokenString, secret, t)
        tried == IF ~v.ok THEN v
                 ELSE IF Falsy(v.val.sub)
                 THEN Throw("Error", "Token does not contain a subject")
                 ELSE Ok(v.val.sub)
    IN  IF tried.ok THEN tried
        ELSE IF InstanceOf(tried.cls, "JsonWebTokenError")
        THEN Throw("Error", "Invalid token")
        ELSE IF InstanceOf(tried.cls, "TokenExpiredError")
        THEN Throw("Error", "Token has expired")
        ELSE IF InstanceOf(tried.cls, "NotBeforeError")
        THEN Throw("Error", "Token not active yet")
        ELSE tried

----------------------------------------------------------------------------
(* Passwords *)

\* argon2.hash(password): a digest that carries its random salt
hashPassword(password, salt) == <<"argon2id", salt, password>>

\* checkPasswordHash with the arguments of argon2.verify swapped: the
\* password is no digest, verify throws, the result is false
checkPasswordHash_swapped(password, hash) == FALSE

\* checkPasswordHash that compares a digest of another format as plain text
checkPasswordHash_plainFallback(password, hash) ==
    hash[3] = password

\* argon2.verify(hash, password), false when it throws
checkPasswordHash(password, hash) ==
    IF hash[1] # "argon2id" THEN FALSE ELSE hash[3] = password

----------------------------------------------------------------------------
(* The tables and their queries.  A query result is the sequence of rows   *)
(* the statement returns; << >> is what the code turns into null.          *)

UuidOrder == <<"u1", "u2">>
HexOrder == <<"r1", "r2">>
UserIds == { UuidOrder[i] : i \in DOMAIN UuidOrder }
HexIds == { HexOrder[i] : i \in DOMAIN HexOrder }
Emails == {"a@x", "b@x"}
\* the passwords of registration, of a credential update, and of login
RegisterPasswords == {"pw1"}
UpdatePasswords == {"pw2"}
\* the email of a credential update
UpdateEmails == {"b@x"}
Passwords == RegisterPasswords \cup UpdatePasswords
Salts == {"s1"}
ReqIds == {1}

\* config.jwtSecret
jwtSecret == "k1"

\* a nullable timestamp column: << >> is NULL, <<t>> is the time t
NULL == <<>>

\* 60 * 24 * 60 * 60 * 1000 milliseconds, in clock units
sixtyDaysInMs == 60 * 24 * 60 * 60 * SubsPerSec

\* db.select().from(users).where(eq(users.email, email))
getUserByEmail(us, email) ==
    IF \E u \in us : u.email = email
    THEN << CHOOSE u \in us : u.email = email >>
    ELSE << >>

\* db.insert(users).values(user).onConflictDoNothing().returning()
createUser(us, id, email, hash) ==
    IF \E u \in us : u.id = id \/ u.email = email
    THEN [rows |-> << >>, table |-> us]
    ELSE LET row == [id |-> id, email |-> email, hashed_password |-> hash,
                     is_chirpy_red |-> FALSE]
         IN  [rows |-> <<row>>, table |-> us \cup {row}]

\* updateUserCredentials on a table without the unique index on email
updateUserCredentials_noUnique(us, userId, email, hash) ==
    IF ~\E u \in us : u.id = userId
    THEN Ok([rows |-> << >>, table |-> us])
    ELSE LET old == CHOOSE u \in us : u.id = userId
             row == [old EXCEPT !.email = email, !.hashed_password = hash]
         IN  Ok([rows |-> <<row>>, table |-> (us \ {old}) \cup {row}])

\* db.update(users).set({ email, hashed_password }).where(eq(users.id, userId)).returning()
updateUserCredentials(us, userId, email, hash) ==
    IF ~\E u \in us : u.id = userId
    THEN Ok([rows |-> << >>, table |-> us])
    ELSE IF \E u \in us : u.id # userId /\ u.email = email
    THEN Throw("PostgresError", "duplicate key value violates unique constraint")
    ELSE LET old == CHOOSE u \in us : u.id = userId
             row == [old EXCEPT !.email = email, !.hashed_password = hash]
         IN  Ok([rows |-> <<row>>, table |-> (us \ {old}) \cup {row}])

\* createRefreshToken as an upsert: a record with that token string is
\* overwritten by the new one
createRefreshToken_upsert(rt, us, token, userId, expiresAt, t) ==
    IF ~\E u \in us : u.id = userId
    THEN Throw("PostgresError", "insert or update violates foreign key constraint")
    ELSE LET row == [token |-> token, createdAt |-> t, updatedAt |-> t,
                     userId |-> userId, expiresAt |-> expiresAt, revokedAt |-> NULL]
         IN  Ok([rows |-> <<row>>,
                 table |-> { r \in rt : r.token # token } \cup {row}])

\* createRefreshToken on a table without the primary key on token
createRefreshToken_noPrimaryKey(rt, us, token, userId, expiresAt, t) ==
    IF ~\E u \in us : u.id = userId
    THEN Throw("PostgresError", "insert or update violates foreign key constraint")
    ELSE LET row == [token |-> token, createdAt |-> t, updatedAt |-> t,
                     userId |-> userId, expiresAt |-> expiresAt, revokedAt |-> NULL]
         IN  Ok([rows |-> <<row>>, table |-> rt \cup {row}])

\* db.insert(refreshTokens).values(token).returning()
createRefreshToken(rt, us, token, userId, expiresAt, t) ==
    IF \E r \in rt : r.token = token
    THEN Throw("PostgresError", "duplicate key value violates unique constraint")
    ELSE IF ~\E u \in us : u.id = userId
    THEN Throw("PostgresError", "insert or update violates foreign key constraint")
    ELSE LET row == [token |-> token, createdAt |-> t, updatedAt |-> t,
                     userId |-> userId, expiresAt |-> expiresAt, revokedAt |-> NULL]
         IN  Ok([rows |-> <<row>>, table |-> rt \cup {row}])

\* getUserFromRefreshToken whose expiry test lets the instant of expiry pass
getUserFromRefreshToken_gte(rt, us, tokenString, t) ==
    LET hit == { u \in us : \E r \in rt : /\ r.userId = u.id
                                          /\ r.token = tokenString
                                          /\ r.revokedAt = NULL
                                          /\ r.expiresAt >= t }
    IN  IF hit = {} THEN << >> ELSE << CHOOSE u \in hit : TRUE >>

\* getUserFromRefreshToken without the isNull(revokedAt) condition
getUserFromRefreshToken_noRevokedTest(rt, us, tokenString, t) ==
    LET hit == { u \in us : \E r \in rt : /\ r.userId = u.id
                                          /\ r.token = tokenString
                                          /\ r.expiresAt > t }
    IN  IF hit = {} THEN << >> ELSE << CHOOSE u \in hit : TRUE >>

\* select ... from refresh_tokens inner join users on user_id = users.id
\* where token = tokenString and revoked_at is null and expires_at > new Date()
getUserFromRefreshToken(rt, us, tokenString, t) ==
    LET hit == { u \in us : \E r \in rt : /\ r.userId = u.id
                                          /\ r.token = tokenString
                                          /\ r.revokedAt = NULL
                                          /\ r.expiresAt > t }
    IN  IF hit = {} THEN << >> ELSE << CHOOSE u \in hit : TRUE >>

\* revokeRefreshToken that deletes the record
revokeRefreshToken_deletes(rt, tokenString, t) ==
    IF ~\E r \in rt : r.token = tokenString
    THEN [rows |-> << >>, table |-> rt]
    ELSE LET old == CHOOSE r \in rt : r.token = tokenString
         IN  [rows |-> <<old>>, table |-> rt \ {old}]

\* revokeRefreshToken that leaves an already revoked record alone
revokeRefreshToken_onlyActive(rt, tokenString, t) ==
    IF ~\E r \in rt : r.token = tokenString /\ r.revokedAt = NULL
    THEN [rows |-> << >>, table |-> rt]
    ELSE LET old == CHOOSE r \in rt : r.token = tokenString
             row == [old EXCEPT !.revokedAt = <<t>>, !.updatedAt = t]
         IN  [rows |-> <<row>>, table |-> (rt \ {old}) \cup {row}]

\* revokeRefreshToken that flips the revocation of the record
revokeRefreshToken_toggle(rt, tokenString, t) ==
    IF ~\E r \in rt : r.token = tokenString
    THEN [rows |-> << >>, table |-> rt]
    ELSE LET old == CHOOSE r \in rt : r.token = tokenString
             row == [old EXCEPT !.revokedAt = IF old.revokedAt = NULL THEN <<t>> ELSE NULL,
                                !.updatedAt = t]
         IN  [rows |-> <<row>>, table |-> (rt \ {old}) \cup {row}]

\* revokeRefreshToken without its where clause
revokeRefreshToken_everyRecord(rt, tokenString, t) ==
    LET rows == { [r EXCEPT !.revokedAt = <<t>>, !.updatedAt = t] : r \in rt } IN
    [rows |-> IF rows = {} THEN << >> ELSE << CHOOSE r \in rows : TRUE >>, table |-> rows]

\* db.update(refreshTokens).set({ revokedAt: new Date() })
\*   .where(eq(refreshTokens.token, tokenString)).returning()
revokeRefreshToken(rt, tokenString, t) ==
    IF ~\E r \in rt : r.token = tokenString
    THEN [rows |-> << >>, table |-> rt]
    ELSE LET old == CHOOSE r \in rt : r.token = tokenString
             row == [old EXCEPT !.revokedAt = <<t>>, !.updatedAt = t]
         IN  [rows |-> <<row>>, table |-> (rt \ {old}) \cup {row}]

\* db.delete(users) on tables without ON DELETE CASCADE
deleteAllUsers_noCascade(us, rt, ch) ==
    [users |-> {}, refreshTokens |-> rt, chirps |-> ch]

\* db.delete(users), with ON DELETE CASCADE on refresh_tokens.user_id and
\* on chirps.user_id
deleteAllUsers(us, rt, ch) ==
    LET kept == { u \in us : FALSE } IN
    [users |-> kept,
     refreshTokens |-> { r \in rt : \E u \in kept : u.id = r.userId },
     chirps |-> { c \in ch : \E u \in kept : u.id = c.userId }]

\* crypto.randomBytes(32).toString("hex")
makeRefreshToken(h) == << HexChunk(h) >>

\* what a random generator (gen_random_uuid, randomBytes) draws when the
\* value is new: a value no row has or had; which one makes no difference,
\* so it is the first such value of a fixed order.  << >> when none is left.
FirstUnused(order, used) ==
    LET I == { i \in DOMAIN order : order[i] \notin used } IN
    IF I = {} THEN << >>
    ELSE << order[CHOOSE i \in I : \A j \in I : i <= j] >>

----------------------------------------------------------------------------
(* Handlers: what they send *)

\* error.message.includes(needle), for the messages that are thrown and the
\* needles that the handlers look for
Needles(msg) ==
    CASE msg = "Authorization header is missing" -> {"Authorization header"}
      [] msg = "Authorization header must start with 'Bearer '" -> {"Authorization header"}
      [] msg = "Invalid token" -> {"Invalid token"}
      [] msg = "Token has expired" -> {"expired"}
      [] msg = "Invalid or expired refresh token" -> {"refresh token", "expired"}
      [] msg = "Invalid refresh token" -> {"refresh token"}
      [] msg = "duplicate key value violates unique constraint" -> {"duplicate key"}
      [] msg = "insert or update violates foreign key constraint" -> {"foreign key"}
      [] OTHER -> {}

Includes(msg, needle) == needle \in Needles(msg)

\* the centralized error-handling middleware
errorHandler(err) ==
    IF InstanceOf(err.cls, "HttpError")
    THEN CASE err.cls = "BadRequestError" -> 400
           [] err.cls = "UnauthorizedError" -> 401
           [] err.cls = "ForbiddenError" -> 403
           [] err.cls = "NotFoundError" -> 404
    ELSE 500

\* the catch block of handlerRefreshAccessToken
refreshCatch(error) ==
    IF Includes(error.msg, "Authorization header") \/ Includes(error.msg, "refresh token")
    THEN Throw("UnauthorizedError", "Invalid or missing refresh token")
    ELSE error

\* the catch block of handlerRevokeRefreshToken
revokeCatch(error) ==
    IF InstanceOf(error.cls, "UnauthorizedError") THEN error
    ELSE IF Includes(error.msg, "Authorization header")
    THEN Throw("UnauthorizedError", "Invalid or missing refresh token")
    ELSE error

\* the catch block of handlerUpdateUser
updateUserCatch(error) ==
    IF \/ Includes(error.msg, "Authorization header")
       \/ Includes(error.msg, "Invalid token")
       \/ Includes(error.msg, "expired")
    THEN Throw("UnauthorizedError", "Invalid or missing authentication token")
    ELSE IF InstanceOf(error.cls, "NotFoundError") THEN error
    ELSE IF Includes(error.msg, "duplicate key")
    THEN Throw("BadRequestError", "User with this email already exists")
    ELSE error

----------------------------------------------------------------------------
(* Requests *)

NoResp == [op |-> "none"]
NoToken == << >>

\* the AccessToken lifetime of login and refresh, in seconds
accessLifetime == 3600

BearerHeader(tok) == BearerPrefix \o tok

\* the access tokens that logins have returned for the records that exist:
\* a login mints its access token when it inserts its record
LoginTokens ==
    { makeJWT(r.userId, accessLifetime, jwtSecret, r.createdAt) : r \in refreshTokens }

\* the session whose credentials are also presented where the other kind
\* is expected: the record of the first token string
CrossSession == { r \in refreshTokens : r.token = makeRefreshToken(HexOrder[1]) }

\* Authorization headers sent to /api/refresh and /api/revoke: no header,
\* other schemes, refresh tokens, and the access token of a login
RefreshHeaders ==
    { Undefined,
      Str(<<"B", "a", "s", "i", "c", " ", "x">>),
      Str(<<"B", "e", "a", "r", "e", "r">>),
      Str(<<" ">>) \o BearerPrefix \o Str(<<" ">>) \o makeRefreshToken("r1") \o Str(<<" ">>) }
    \cup { BearerHeader(makeRefreshToken(h)) : h \in HexIds }
    \cup { BearerHeader(makeJWT(r.userId, accessLifetime, jwtSecret, r.createdAt)) :
             r \in CrossSession }

\* Authorization headers sent to PUT /api/users
AccessHeaders ==
    { Undefined,
      BearerHeader(makeJWT(UuidOrder[1], accessLifetime, "k2", now)),
      BearerHeader(makeRefreshToken(HexOrder[1])) }
    \cup { BearerHeader(tok) : tok \in LoginTokens \cup retired.minted }

\* the clock advances by the lifetime of a refresh token
HttpTickSteps == { sixtyDaysInMs }

Tick ==
    /\ ticks < MaxTicks
    /\ \E d \in HttpTickSteps : now' = now + d
    /\ ticks' = ticks + 1
    /\ last' = NoResp
    /\ UNCHANGED <<harness, config, users, refreshTokens, reqs, retired, chirps>>

\* page views under /app that a session makes
MaxHits == 2

\* handlerReset that does not look at the platform
handlerReset_anyPlatform(plat, us, rt, ch, hits) ==
    LET d == deleteAllUsers(us, rt, ch) IN
    [status |-> 200, users |-> d.users, refreshTokens |-> d.refreshTokens,
     chirps |-> d.chirps, fileserverHits |-> 0]

\* handlerReset: the status sent and what is left of the tables and of the
\* hit counter
handlerReset(plat, us, rt, ch, hits) ==
    IF plat # "dev"
    THEN [status |-> errorHandler(Throw("ForbiddenError",
                         "This endpoint is only available in development environment")),
          users |-> us, refreshTokens |-> rt, chirps |-> ch, fileserverHits |-> hits]
    ELSE LET d == deleteAllUsers(us, rt, ch) IN
         [status |-> 200, users |-> d.users, refreshTokens |-> d.refreshTokens,
          chirps |-> d.chirps, fileserverHits |-> 0]

\* POST /admin/reset
Reset ==
    /\ LET r == handlerReset(platform, users, refreshTokens, chirps, fileserverHits) IN
          /\ users' = r.users
          /\ refreshTokens' = r.refreshTokens
          /\ chirps' = r.chirps
          /\ fileserverHits' = r.fileserverHits
          /\ retired' = [ids |-> retired.ids \cup { u.id : u \in users \ r.users }
                                     \cup { c.id : c \in chirps \ r.chirps },
                         tokens |-> retired.tokens
                             \cup { t.token[1][2] : t \in refreshTokens \ r.refreshTokens },
                         minted |-> retired.minted
                             \cup { makeJWT(t.userId, accessLifetime, jwtSecret, t.createdAt) :
                                      t \in refreshTokens \ r.refreshTokens }]
          /\ last' = [op |-> "reset", status |-> r.status]
    /\ UNCHANGED <<clock, harness, platform, reqs>>

\* GET /app/...: middlewareMetricsInc, then express.static
MetricsInc ==
    /\ fileserverHits < MaxHits
    /\ fileserverHits' = fileserverHits + 1
    /\ last' = [op |-> "app"]
    /\ UNCHANGED <<clock, harness, platform, db, reqs, retired>>

\* POST /api/users
CreateUser ==
    /\ \E email \in Emails \cup {""}, password \in RegisterPasswords :
          IF email = ""
          THEN /\ last' = [op |-> "createUser",
                           status |-> errorHandler(Throw("BadRequestError",
                               "Email is required and must be a string"))]
               /\ UNCHANGED users
          ELSE \E salt \in Salts :
                  LET fresh == FirstUnused(UuidOrder,
                                           { u.id : u \in users } \cup retired.ids)
                      id == IF fresh = << >> THEN UuidOrder[1] ELSE fresh[1]
                      c == createUser(users, id, email, hashPassword(password, salt))
                  IN  /\ fresh # << >> \/ \E u \in users : u.email = email
                      /\ users' = c.table
                      /\ last' = [op |-> "createUser",
                                  status |-> IF c.rows = << >>
                                             THEN errorHandler(Throw("BadRequestError",
                                                      "User with this email already exists"))
                                             ELSE 201]
    /\ UNCHANGED <<clock, harness, config, refreshTokens, reqs, retired, chirps>>

\* handlerUpdateUser that signs the user out: it revokes the refresh tokens
\* of the user whose credentials it changes
updateUser_signOut(us, rt, hdr, email, password, salt, t) ==
    LET b == getBearerToken(hdr)
        v == IF b.ok THEN validateJWT(b.val, jwtSecret, t) ELSE b
        c == IF v.ok
             THEN updateUserCredentials(us, v.val, email, hashPassword(password, salt))
             ELSE v
        out == IF ~c.ok THEN updateUserCatch(c)
               ELSE IF c.val.rows = << >>
               THEN updateUserCatch(Throw("NotFoundError", "User not found"))
               ELSE c
    IN  IF email = ""
        THEN [status |-> errorHandler(Throw("BadRequestError",
                             "Email is required and must be a string")),
              users |-> us, refreshTokens |-> rt]
        ELSE IF password = ""
        THEN [status |-> errorHandler(Throw("BadRequestError",
                             "Password is required and must be a string")),
              users |-> us, refreshTokens |-> rt]
        ELSE IF ~out.ok
        THEN [status |-> errorHandler(out), users |-> us, refreshTokens |-> rt]
        ELSE [status |-> 200, users |-> out.val.table,
              refreshTokens |-> { IF r.userId = v.val
                                  THEN [r EXCEPT !.revokedAt = <<t>>, !.updatedAt = t]
                                  ELSE r : r \in rt }]

\* handlerUpdateUser: the status it sends, and the tables as it leaves them
updateUser(us, rt, hdr, email, password, salt, t) ==
    LET b == getBearerToken(hdr)
        v == IF b.ok THEN validateJWT(b.val, jwtSecret, t) ELSE b
        c == IF v.ok
             THEN updateUserCredentials(us, v.val, email, hashPassword(password, salt))
             ELSE v
        out == IF ~c.ok THEN updateUserCatch(c)
               ELSE IF c.val.rows = << >>
               THEN updateUserCatch(Throw("NotFoundError", "User not found"))
               ELSE c
    IN  IF email = ""
        THEN [status |-> errorHandler(Throw("BadRequestError",
                             "Email is required and must be a string")),
              users |-> us, refreshTokens |-> rt]
        ELSE IF password = ""
        THEN [status |-> errorHandler(Throw("BadRequestError",
                             "Password is required and must be a string")),
              users |-> us, refreshTokens |-> rt]
        ELSE IF ~out.ok
        THEN [status |-> errorHandler(out), users |-> us, refreshTokens |-> rt]
        ELSE [status |-> 200, users |-> out.val.table, refreshTokens |-> rt]

\* PUT /api/users
UpdateUser ==
    /\ \E hdr \in AccessHeaders, email \in UpdateEmails \cup {""}, password \in UpdatePasswords,
          salt \in Salts :
          LET out == updateUser(users, refreshTokens, hdr, email, password, salt, now) IN
          /\ users' = out.users
          /\ refreshTokens' = out.refreshTokens
          /\ last' = [op |-> "updateUser", status |-> out.status,
                      hdr |-> hdr, email |-> email]
    /\ UNCHANGED <<clock, harness, config, reqs, retired, chirps>>

\* what randomBytes may draw at a login: a value never used, or one that an
\* existing record already has
DrawnHex(rt, gone) ==
    LET existing == { r.token[1][2] : r \in rt }
        fresh == FirstUnused(HexOrder, existing \cup gone)
    IN  existing \cup { fresh[i] : i \in DOMAIN fresh }

\* a request may start while fewer than Cardinality(ReqIds) are in flight
CanStart == Cardinality(reqs) < Cardinality(ReqIds)

\* handlerLogin that tells an unknown email from a wrong password
loginLookup_tellsApart(us, email, password) ==
    IF email = ""
    THEN Throw("BadRequestError", "Email is required and must be a string")
    ELSE IF password = ""
    THEN Throw("BadRequestError", "Password is required and must be a string")
    ELSE LET user == getUserByEmail(us, email) IN
         IF user = << >>
         THEN Throw("NotFoundError", "User not found")
         ELSE IF ~checkPasswordHash(password, user[1].hashed_password)
         THEN Throw("UnauthorizedError", "Incorrect email or password")
         ELSE Ok(user[1])

\* handlerLogin up to the password check: the user that logs in, or what
\* is thrown
loginLookup(us, email, password) ==
    IF email = ""
    THEN Throw("BadRequestError", "Email is required and must be a string")
    ELSE IF password = ""
    THEN Throw("BadRequestError", "Password is required and must be a string")
    ELSE LET user == getUserByEmail(us, email) IN
         IF user = << >>
         THEN Throw("UnauthorizedError", "Incorrect email or password")
         ELSE IF ~checkPasswordHash(password, user[1].hashed_password)
         THEN Throw("UnauthorizedError", "Incorrect email or password")
         ELSE Ok(user[1])

\* POST /api/login, up to the password check
LoginLookup ==
    /\ CanStart
    /\ \E email \in Emails \cup {""}, password \in Passwords :
          LET found == loginLookup(users, email, password) IN
          IF ~found.ok
          THEN /\ last' = [op |-> "login", status |-> errorHandler(found),
                           error |-> found.msg, email |-> email, password |-> password]
               /\ UNCHANGED reqs
          ELSE /\ reqs' = reqs \cup {[kind |-> "login", userId |-> found.val.id]}
               /\ last' = NoResp
    /\ UNCHANGED <<clock, harness, config, users, refreshTokens, retired, chirps>>

\* POST /api/login, from makeJWT on
LoginInsert(req) ==
    /\ req.kind = "login"
    /\ \E h \in DrawnHex(refreshTokens, retired.tokens) :
          LET token == makeJWT(req.userId, accessLifetime, jwtSecret, now)
              refreshToken == makeRefreshToken(h)
              c == createRefreshToken(refreshTokens, users, refreshToken, req.userId,
                                      now + sixtyDaysInMs, now)
          IN  /\ IF c.ok
                 THEN /\ refreshTokens' = c.val.table
                      /\ last' = [op |-> "login", status |-> 200, jwt |-> token,
                                  refreshToken |-> refreshToken]
                 ELSE /\ last' = [op |-> "login", status |-> errorHandler(c)]
                      /\ UNCHANGED refreshTokens
    /\ reqs' = reqs \ {req}
    /\ UNCHANGED <<clock, harness, config, users, retired, chirps>>

\* handlerRefreshAccessToken that revokes the token it redeems
refreshRespond_rotating(rt, req, t) ==
    IF req.user = << >>
    THEN [ok |-> FALSE,
          err |-> refreshCatch(Throw("UnauthorizedError", "Invalid or expired refresh token")),
          table |-> rt]
    ELSE [ok |-> TRUE, token |-> makeJWT(req.user[1], accessLifetime, jwtSecret, t),
          table |-> revokeRefreshToken(rt, req.tok, t).table]

\* handlerRefreshAccessToken that mints a token of twice the lifetime
refreshRespond_longLived(rt, req, t) ==
    IF req.user = << >>
    THEN [ok |-> FALSE,
          err |-> refreshCatch(Throw("UnauthorizedError", "Invalid or expired refresh token")),
          table |-> rt]
    ELSE [ok |-> TRUE, token |-> makeJWT(req.user[1], 2 * accessLifetime, jwtSecret, t),
          table |-> rt]

\* handlerRefreshAccessToken after the lookup: what it sends, and the table
\* as it leaves it
refreshRespond(rt, req, t) ==
    IF req.user = << >>
    THEN [ok |-> FALSE,
          err |-> refreshCatch(Throw("UnauthorizedError", "Invalid or expired refresh token")),
          table |-> rt]
    ELSE [ok |-> TRUE, token |-> makeJWT(req.user[1], accessLifetime, jwtSecret, t),
          table |-> rt]

\* POST /api/refresh, up to the lookup of the record
RefreshLookup ==
    /\ CanStart
    /\ \E hdr \in RefreshHeaders :
          LET b == getBearerToken(hdr) IN
          IF ~b.ok
          THEN /\ last' = [op |-> "refresh", status |-> errorHandler(refreshCatch(b)),
                           rt |-> NoToken, jwt |-> NoToken]
               /\ UNCHANGED reqs
          ELSE LET user == getUserFromRefreshToken(refreshTokens, users, b.val, now) IN
               /\ reqs' = reqs \cup
                              {[kind |-> "refresh", tok |-> b.val,
                                user |-> [i \in DOMAIN user |-> user[i].id],
                                afterRevoke |-> \E x \in refreshTokens :
                                                   x.token = b.val /\ x.revokedAt # NULL]}
               /\ last' = NoResp
    /\ UNCHANGED <<clock, harness, config, users, refreshTokens, retired, chirps>>

\* POST /api/refresh, after the lookup
RefreshRespond(req) ==
    /\ req.kind = "refresh"
    /\ LET out == refreshRespond(refreshTokens, req, now) IN
       /\ refreshTokens' = out.table
       /\ IF out.ok
          THEN last' = [op |-> "refresh", status |-> 200, rt |-> req.tok,
                           jwt |-> out.token, afterRevoke |-> req.afterRevoke]
          ELSE last' = [op |-> "refresh", status |-> errorHandler(out.err),
                           rt |-> req.tok, jwt |-> NoToken,
                           afterRevoke |-> req.afterRevoke]
    /\ reqs' = reqs \ {req}
    /\ UNCHANGED <<clock, harness, config, users, retired, chirps>>

\* POST /api/revoke
Revoke ==
    /\ \E hdr \in RefreshHeaders :
          LET b == getBearerToken(hdr)
              c == revokeRefreshToken(refreshTokens, b.val, now)
          IN  IF ~b.ok
              THEN /\ last' = [op |-> "revoke", status |-> errorHandler(revokeCatch(b)),
                               rt |-> NoToken, prior |-> {}]
                   /\ UNCHANGED refreshTokens
              ELSE /\ refreshTokens' = c.table
                   /\ last' = [op |-> "revoke",
                               status |-> IF c.rows = << >>
                                          THEN errorHandler(revokeCatch(
                                                   Throw("UnauthorizedError",
                                                         "Invalid refresh token")))
                                          ELSE 204,
                               rt |-> b.val,
                               prior |-> { r.revokedAt : r \in
                                             { x \in refreshTokens : x.token = b.val } }]
    /\ UNCHANGED <<clock, harness, config, users, reqs, retired, chirps>>

----------------------------------------------------------------------------
(* Chirps *)

ChirpOrder == <<"c1", "c2">>
ChirpIds == { ChirpOrder[i] : i \in DOMAIN ChirpOrder }

\* the longest chirp, in characters
maxChirpLength == 140
bannedWords == {"kerfuffle", "sharbert", "fornax"}

\* String.prototype.toLowerCase, for the words of the bodies that are sent
ToLowerCase(w) ==
    CASE w = "Sharbert" -> "sharbert"
      [] w = "FORNAX" -> "fornax"
      [] OTHER -> w

\* a request body: the words that body.split(" ") gives and body.length
TextBody(words, length) == [isString |-> TRUE, words |-> words, length |-> length]
NoBody == [isString |-> FALSE]
ChirpBodies == { TextBody(<<"hello">>, 5), NoBody }

\* a payload without a userId field, and the userId fields that are sent
NoUserId == ""
PayloadUserIds == {NoUserId, UuidOrder[1]}

\* the payloads sent to POST /api/chirps: a body, alone or next to a userId
\* field
ChirpPayloads ==
    { [body |-> body, userId |-> NoUserId] : body \in ChirpBodies }
    \cup { [body |-> body, userId |-> userId] :
             body \in { b \in ChirpBodies : b.isString },
             userId \in PayloadUserIds \ {NoUserId} }

\* db.insert(chirps).values(chirp).returning()
createChirp(ch, us, id, body, userId, t) ==
    IF ~\E u \in us : u.id = userId
    THEN Throw("PostgresError", "insert or update violates foreign key constraint")
    ELSE LET row == [id |-> id, createdAt |-> t, updatedAt |-> t, body |-> body,
                     userId |-> userId]
         IN  Ok([rows |-> <<row>>, table |-> ch \cup {row}])

\* db.select().from(chirps).where(eq(chirps.id, id))
getChirpById(ch, id) ==
    IF \E c \in ch : c.id = id THEN << CHOOSE c \in ch : c.id = id >> ELSE << >>

\* deleteChirpById that returns the result of the statement, not its row
deleteChirpById_noReturning(ch, id) ==
    [rows |-> << [id |-> id] >>, table |-> { c \in ch : c.id # id }]

\* db.delete(chirps).where(eq(chirps.id, id)).returning()
deleteChirpById(ch, id) ==
    [rows |-> getChirpById(ch, id), table |-> { c \in ch : c.id # id }]

\* the checks of handlerCreateChirp without toLowerCase
validateChirp_caseSensitive(body) ==
    IF ~body.isString
    THEN Throw("BadRequestError", "Body is required and must be a string")
    ELSE IF body.length > maxChirpLength
    THEN Throw("BadRequestError", "Chirp is too long. Max length is 140")
    ELSE IF \E i \in DOMAIN body.words : body.words[i] \in bannedWords
    THEN Throw("BadRequestError", "Chirp contains banned words")
    ELSE Ok(body)

\* the checks of handlerCreateChirp on the request payload
validateChirp(body) ==
    IF ~body.isString
    THEN Throw("BadRequestError", "Body is required and must be a string")
    ELSE IF body.length > maxChirpLength
    THEN Throw("BadRequestError", "Chirp is too long. Max length is 140")
    ELSE IF \E i \in DOMAIN body.words : ToLowerCase(body.words[i]) \in bannedWords
    THEN Throw("BadRequestError", "Chirp contains banned words")
    ELSE Ok(body)

\* the catch block of handlerCreateChirp without the test for "Invalid token"
createChirpCatch_noInvalidToken(error) ==
    IF Includes(error.msg, "foreign key")
    THEN Throw("BadRequestError", "User not found")
    ELSE IF \/ Includes(error.msg, "Authorization header")
            \/ Includes(error.msg, "expired")
    THEN Throw("UnauthorizedError", "Invalid or missing authentication token")
    ELSE error

\* the catch block of handlerCreateChirp
createChirpCatch(error) ==
    IF Includes(error.msg, "foreign key")
    THEN Throw("BadRequestError", "User not found")
    ELSE IF \/ Includes(error.msg, "Authorization header")
            \/ Includes(error.msg, "Invalid token")
            \/ Includes(error.msg, "expired")
    THEN Throw("UnauthorizedError", "Invalid or missing authentication token")
    ELSE error

\* the catch block of handlerDeleteChirp
deleteChirpCatch(error) ==
    IF \/ Includes(error.msg, "Authorization header")
       \/ Includes(error.msg, "Invalid token")
       \/ Includes(error.msg, "expired")
    THEN Throw("UnauthorizedError", "Invalid or missing authentication token")
    ELSE error

\* handlerCreateChirp that takes the owner from the payload when it names one
handlerCreateChirp_ownerFromPayload(ch, us, hdr, payload, id, t) ==
    LET checkedBody == validateChirp(payload.body)
        b == getBearerToken(hdr)
        v == IF b.ok THEN validateJWT(b.val, jwtSecret, t) ELSE b
        c == IF v.ok
             THEN createChirp(ch, us, id, payload.body,
                              IF payload.userId # NoUserId THEN payload.userId ELSE v.val, t)
             ELSE v
    IN  IF ~checkedBody.ok
        THEN [status |-> errorHandler(checkedBody), chirps |-> ch]
        ELSE IF ~c.ok
        THEN [status |-> errorHandler(createChirpCatch(c)), chirps |-> ch]
        ELSE [status |-> 201, chirps |-> c.val.table]

\* handlerCreateChirp that reads the token before it validates the body
handlerCreateChirp_tokenFirst(ch, us, hdr, payload, id, t) ==
    LET checkedBody == validateChirp(payload.body)
        b == getBearerToken(hdr)
        v == IF b.ok THEN validateJWT(b.val, jwtSecret, t) ELSE b
        c == IF v.ok
             THEN createChirp(ch, us, id, payload.body, v.val, t)
             ELSE v
    IN  IF ~v.ok
        THEN [status |-> errorHandler(createChirpCatch(v)), chirps |-> ch]
        ELSE IF ~checkedBody.ok
        THEN [status |-> errorHandler(checkedBody), chirps |-> ch]
        ELSE IF ~c.ok
        THEN [status |-> errorHandler(createChirpCatch(c)), chirps |-> ch]
        ELSE [status |-> 201, chirps |-> c.val.table]

\* handlerCreateChirp: the status it sends, and the chirps as it leaves them
handlerCreateChirp(ch, us, hdr, payload, id, t) ==
    LET checkedBody == validateChirp(payload.body)
        b == getBearerToken(hdr)
        v == IF b.ok THEN validateJWT(b.val, jwtSecret, t) ELSE b
        c == IF v.ok
             THEN createChirp(ch, us, id, payload.body, v.val, t)
             ELSE v
    IN  IF ~checkedBody.ok
        THEN [status |-> errorHandler(checkedBody), chirps |-> ch]
        ELSE IF ~c.ok
        THEN [status |-> errorHandler(createChirpCatch(c)), chirps |-> ch]
        ELSE [status |-> 201, chirps |-> c.val.table]

\* handlerDeleteChirp that deletes for any authenticated user
deleteChirpLookup_noOwnerTest(ch, hdr, chirpID, t) ==
    LET b == getBearerToken(hdr)
        v == IF b.ok THEN validateJWT(b.val, jwtSecret, t) ELSE b
        chirp == getChirpById(ch, chirpID)
    IN  IF ~v.ok THEN deleteChirpCatch(v)
        ELSE IF chirp = << >>
        THEN deleteChirpCatch(Throw("NotFoundError", "Chirp not found"))
        ELSE Ok(chirp[1])

\* handlerDeleteChirp that looks the chirp up before it reads the token
deleteChirpLookup_chirpFirst(ch, hdr, chirpID, t) ==
    LET b == getBearerToken(hdr)
        v == IF b.ok THEN validateJWT(b.val, jwtSecret, t) ELSE b
        chirp == getChirpById(ch, chirpID)
    IN  IF chirp = << >>
        THEN deleteChirpCatch(Throw("NotFoundError", "Chirp not found"))
        ELSE IF ~v.ok THEN deleteChirpCatch(v)
        ELSE IF chirp[1].userId # v.val
        THEN deleteChirpCatch(Throw("ForbiddenError",
                                    "You are not allowed to delete this chirp"))
        ELSE Ok(chirp[1])

\* handlerDeleteChirp up to the ownership test: the chirp to delete, or what
\* is thrown
deleteChirpLookup(ch, hdr, chirpID, t) ==
    LET b == getBearerToken(hdr)
        v == IF b.ok THEN validateJWT(b.val, jwtSecret, t) ELSE b
        chirp == getChirpById(ch, chirpID)
    IN  IF ~v.ok THEN deleteChirpCatch(v)
        ELSE IF chirp = << >>
        THEN deleteChirpCatch(Throw("NotFoundError", "Chirp not found"))
        ELSE IF chirp[1].userId # v.val
        THEN deleteChirpCatch(Throw("ForbiddenError",
                                    "You are not allowed to delete this chirp"))
        ELSE Ok(chirp[1])

InitHttp ==
    /\ platform = "dev"
    /\ fileserverHits = 0
    /\ users = {}
    /\ refreshTokens = {}
    /\ reqs = {}
    /\ last = NoResp
    /\ retired = [ids |-> {}, tokens |-> {}, minted |-> {}]
    /\ chirps = {}

Init ==
    /\ now = 0
    /\ ticks = 0
    /\ issued = [set |-> FALSE]
    /\ checked = [set |-> FALSE]
    /\ InitHttp

Next ==
    \/ Tick
    \/ Reset
    \/ CreateUser
    \/ LoginLookup
    \/ \E req \in reqs : LoginInsert(req)
    \/ RefreshLookup
    \/ \E req \in reqs : RefreshRespond(req)
    \/ Revoke

Spec == Init /\ [][Next]_vars

\* the access tokens that were returned for the records that exist: by the
\* login that inserted the record, and by a refresh at the instant of its
\* revocation, before the revoke
MintedTokens ==
    { makeJWT(r.userId, accessLifetime, jwtSecret, r.createdAt) : r \in refreshTokens }
    \cup { makeJWT(r.userId, accessLifetime, jwtSecret, r.revokedAt[1]) :
             r \in { x \in refreshTokens : x.revokedAt # NULL } }

\* a token signed with the server's secret whose payload has no subject
NoSubjectToken ==
    << JwtChunk([alg |-> "HS256", iss |-> "chirpy", sub |-> NoSub, iat |-> Sec(now),
                 exp |-> Sec(now) + accessLifetime, nbf |-> NoNbf, key |-> jwtSecret]) >>

\* Authorization headers sent to the chirp endpoints
ProtectedHeaders ==
    { Undefined,
      Str(<<"B", "a", "s", "i", "c", " ", "x">>),
      BearerHeader(makeRefreshToken(HexOrder[1])),
      BearerHeader(makeJWT(UuidOrder[1], accessLifetime, "k2", now)),
      BearerHeader(NoSubjectToken) }
    \cup { BearerHeader(tok) : tok \in MintedTokens \cup retired.minted }

\* the clock advances by a second or by the lifetime of an access token
ChirpTickSteps == { SubsPerSec, accessLifetime * SubsPerSec }

ChirpTick ==
    /\ ticks < MaxTicks
    /\ \E d \in ChirpTickSteps : now' = now + d
    /\ ticks' = ticks + 1
    /\ last' = NoResp
    /\ UNCHANGED <<harness, config, users, refreshTokens, reqs, retired, chirps>>

\* POST /api/chirps; the payload may have a userId field next to its body
CreateChirpWith(payloads) ==
    /\ \E hdr \in ProtectedHeaders, payload \in payloads :
          LET fresh == FirstUnused(ChirpOrder, { c.id : c \in chirps } \cup retired.ids)
              out == handlerCreateChirp(chirps, users, hdr, payload, fresh[1], now)
          IN  /\ fresh # << >>
              /\ chirps' = out.chirps
              /\ last' = [op |-> "createChirp", status |-> out.status, hdr |-> hdr,
                          at |-> now, chirpID |-> IF out.status = 201 THEN fresh[1] ELSE NoToken,
                          body |-> payload.body]
    /\ UNCHANGED <<clock, harness, config, users, refreshTokens, reqs, retired>>

CreateChirp == CreateChirpWith(ChirpPayloads)

\* the delete requests in flight
Deleting == { req \in reqs : req.kind = "deleteChirp" }

\* DELETE /api/chirps/:chirpID, up to the ownership test, while fewer than
\* Cardinality(ids) requests are in flight; id tells the request from the
\* others in flight
DeleteChirpLookupIn(ids) ==
    /\ Cardinality(reqs) < Cardinality(ids)
    /\ \E hdr \in ProtectedHeaders, chirpID \in ChirpIds :
          LET found == deleteChirpLookup(chirps, hdr, chirpID, now)
              free == ids \ { req.id : req \in Deleting }
              id == CHOOSE i \in free : \A j \in free : i <= j
          IN
          IF ~found.ok
          THEN /\ last' = [op |-> "deleteChirp", status |-> errorHandler(found),
                           hdr |-> hdr, at |-> now, chirpID |-> chirpID]
               /\ UNCHANGED reqs
          ELSE /\ reqs' = reqs \cup {[kind |-> "deleteChirp", id |-> id, hdr |-> hdr,
                                      at |-> now, chirpID |-> chirpID]}
               /\ last' = NoResp
    /\ UNCHANGED <<clock, harness, config, users, refreshTokens, retired, chirps>>

DeleteChirpLookup == DeleteChirpLookupIn(ReqIds)

\* DELETE /api/chirps/:chirpID, from deleteChirpById on
DeleteChirpCommit(req) ==
    /\ req.kind = "deleteChirp"
    /\ LET d == deleteChirpById(chirps, req.chirpID) IN
       /\ chirps' = d.table
       /\ retired' = [retired EXCEPT !.ids = @ \cup { c.id : c \in chirps \ d.table }]
       /\ last' = [op |-> "deleteChirp",
                   status |-> IF d.rows = << >>
                              THEN errorHandler(deleteChirpCatch(
                                       Throw("NotFoundError", "Chirp not found")))
                              ELSE 204,
                   hdr |-> req.hdr, at |-> req.at, chirpID |-> req.chirpID,
                   req |-> req.id]
    /\ reqs' = reqs \ {req}
    /\ UNCHANGED <<clock, harness, config, users, refreshTokens>>

NextChirps ==
    \/ ChirpTick
    \/ CreateUser
    \/ LoginLookup
    \/ \E req \in reqs : LoginInsert(req)
    \/ CreateChirp
    \/ DeleteChirpLookup
    \/ \E req \in reqs : DeleteChirpCommit(req)

SpecChirps == Init /\ [][NextChirps]_vars

\* sessions: logins, revokes, and a protected action; no chirp exists, so
\* no delete gets as far as deleteChirpById
NextSession ==
    \/ ChirpTick
    \/ CreateUser
    \/ LoginLookup
    \/ \E req \in reqs : LoginInsert(req)
    \/ Revoke
    \/ DeleteChirpLookup

SpecSession == Init /\ [][NextSession]_vars

\* two delete requests at a time
RaceReqIds == {1, 2}

\* chirps and deletes that overlap, at one instant
NextRace ==
    \/ CreateUser
    \/ LoginLookup
    \/ \E req \in reqs : LoginInsert(req)
    \/ CreateChirp
    \/ DeleteChirpLookupIn(RaceReqIds)
    \/ \E req \in reqs : DeleteChirpCommit(req)

SpecRace == Init /\ [][NextRace]_vars

\* bodies at and over the longest length, with a banned word in another
\* case, and with a banned word that is only part of a word
ValidationBodies ==
    ChirpBodies
    \cup { TextBody(<<"at", "the", "limit">>, maxChirpLength),
           TextBody(<<"too", "long">>, maxChirpLength + 1),
           TextBody(<<"I", "Sharbert", "you">>, 14),
           TextBody(<<"FORNAX">>, 6),
           TextBody(<<"sharbert!">>, 9) }

ValidationPayloads == { [body |-> body, userId |-> NoUserId] : body \in ValidationBodies }

\* chirps of every kind of body, at one instant
NextBodies ==
    \/ CreateUser
    \/ LoginLookup
    \/ \E req \in reqs : LoginInsert(req)
    \/ CreateChirpWith(ValidationPayloads)

SpecBodies == Init /\ [][NextBodies]_vars

----------------------------------------------------------------------------
(* The Polka webhook *)

ApiKeyPrefix == Str(<<"A", "p", "i", "K", "e", "y", " ">>)

\* config.polkaKey, and a key that is not the configured one
polkaKey == Str(<<"p", "k">>)
otherKey == Str(<<"p", "x">>)

\* the extraction of getBearerToken with the prefix of an API key
getAPIKey(authHeader) ==
    IF authHeader = Undefined \/ authHeader = <<>> \/ Trim(authHeader) = <<>>
    THEN Throw("Error", "Authorization header is missing")
    ELSE LET trimmedHeader == Trim(authHeader) IN
         IF ~StartsWith(trimmedHeader, ApiKeyPrefix)
         THEN Throw("Error", "Authorization header must start with 'ApiKey '")
         ELSE Ok(Trim(Substring(trimmedHeader, 7)))

\* update users set is_chirpy_red = true where id = userId returning *
upgradeUserToChirpyRed(us, userId) ==
    IF ~\E u \in us : u.id = userId
    THEN [rows |-> << >>, table |-> us]
    ELSE LET old == CHOOSE u \in us : u.id = userId
             row == [old EXCEPT !.is_chirpy_red = TRUE]
         IN  [rows |-> <<row>>, table |-> (us \ {old}) \cup {row}]

\* the events that Polka sends
PolkaEvents == {"user.upgraded", "user.payment_failed"}

\* handlerPolkaWebhook without the test of the key
polkaWebhook_noKeyTest(us, hdr, event, userId) ==
    IF event # "user.upgraded"
    THEN [status |-> 204, users |-> us]
    ELSE IF userId = NoUserId
    THEN [status |-> errorHandler(Throw("BadRequestError", "Invalid webhook payload")),
          users |-> us]
    ELSE LET updated == upgradeUserToChirpyRed(us, userId) IN
         IF updated.rows = << >>
         THEN [status |-> errorHandler(Throw("NotFoundError", "User not found")),
               users |-> us]
         ELSE [status |-> 204, users |-> updated.table]

\* handlerPolkaWebhook that refuses the upgrade of an upgraded user
polkaWebhook_refuseRepeat(us, hdr, event, userId) ==
    LET key == getAPIKey(hdr)
        auth == IF key.ok /\ key.val = polkaKey THEN key
                ELSE Throw("UnauthorizedError", "Invalid or missing API key")
    IN  IF ~auth.ok
        THEN [status |-> errorHandler(auth), users |-> us]
        ELSE IF event # "user.upgraded"
        THEN [status |-> 204, users |-> us]
        ELSE IF userId = NoUserId
        THEN [status |-> errorHandler(Throw("BadRequestError", "Invalid webhook payload")),
              users |-> us]
        ELSE IF \E u \in us : u.id = userId /\ u.is_chirpy_red
        THEN [status |-> errorHandler(Throw("BadRequestError", "Invalid webhook payload")),
              users |-> us]
        ELSE LET updated == upgradeUserToChirpyRed(us, userId) IN
             IF updated.rows = << >>
             THEN [status |-> errorHandler(Throw("NotFoundError", "User not found")),
                   users |-> us]
             ELSE [status |-> 204, users |-> updated.table]

\* handlerPolkaWebhook: the status it sends, and the users as it leaves them
polkaWebhook(us, hdr, event, userId) ==
    LET key == getAPIKey(hdr)
        auth == IF key.ok /\ key.val = polkaKey THEN key
                ELSE Throw("UnauthorizedError", "Invalid or missing API key")
    IN  IF ~auth.ok
        THEN [status |-> errorHandler(auth), users |-> us]
        ELSE IF event # "user.upgraded"
        THEN [status |-> 204, users |-> us]
        ELSE IF userId = NoUserId
        THEN [status |-> errorHandler(Throw("BadRequestError", "Invalid webhook payload")),
              users |-> us]
        ELSE LET updated == upgradeUserToChirpyRed(us, userId) IN
             IF updated.rows = << >>
             THEN [status |-> errorHandler(Throw("NotFoundError", "User not found")),
                   users |-> us]
             ELSE [status |-> 204, users |-> updated.table]

\* Authorization headers sent to the webhook
PolkaHeaders ==
    { Undefined,
      Str(<<"A", "p", "i", "K", "e", "y">>),
      BearerHeader(polkaKey),
      polkaKey,
      ApiKeyPrefix \o otherKey,
      ApiKeyPrefix \o polkaKey,
      Str(<<" ">>) \o ApiKeyPrefix \o Str(<<" ">>) \o polkaKey \o Str(<<" ">>) }

\* POST /api/polka/webhooks
PolkaWebhook ==
    /\ \E hdr \in PolkaHeaders, event \in PolkaEvents, userId \in UserIds \cup {NoUserId} :
          LET out == polkaWebhook(users, hdr, event, userId) IN
          /\ users' = out.users
          /\ last' = [op |-> "polka", status |-> out.status, hdr |-> hdr,
                      event |-> event, userId |-> userId,
                      wasRed |-> \E u \in users : u.id = userId /\ u.is_chirpy_red]
    /\ UNCHANGED <<clock, harness, config, refreshTokens, reqs, retired, chirps>>

\* registrations, logins and deliveries of the webhook
NextPolka ==
    \/ CreateUser
    \/ LoginLookup
    \/ \E req \in reqs : LoginInsert(req)
    \/ PolkaWebhook

SpecPolka == Init /\ [][NextPolka]_vars

\* accounts and their sessions at one instant: registrations, credential
\* updates, logins, refreshes, revokes and the deletion of the users
NextAccounts ==
    \/ Reset
    \/ CreateUser
    \/ UpdateUser
    \/ LoginLookup
    \/ \E req \in reqs : LoginInsert(req)
    \/ RefreshLookup
    \/ \E req \in reqs : RefreshRespond(req)
    \/ Revoke

SpecAccounts == Init /\ [][NextAccounts]_vars

\* the records and the chirps of the sessions in which a credential is
\* presented where the other one is expected
MaxCredentialTokens == 1
MaxCredentialChirps == 1

\* every handler that reads a credential, at one instant
NextCredentials ==
    \/ CreateUser
    \/ Cardinality(refreshTokens) < MaxCredentialTokens /\ LoginLookup
    \/ \E req \in reqs : LoginInsert(req)
    \/ UpdateUser
    \/ RefreshLookup
    \/ \E req \in reqs : RefreshRespond(req)
    \/ Revoke
    \/ Cardinality(chirps) < MaxCredentialChirps /\ CreateChirp
    \/ DeleteChirpLookup
    \/ \E req \in reqs : DeleteChirpCommit(req)

SpecCredentials == Init /\ [][NextCredentials]_vars

----------------------------------------------------------------------------
(* Properties of the refresh tokens, under Spec *)

\* a record with that token string exists, its revocation time is null and
\* the time t is strictly before its expiry time
Usable(rt, tokenString, t) ==
    \E r \in rt : r.token = tokenString /\ r.revokedAt = NULL /\ t < r.expiresAt

OwnerOf(rt, tokenString) ==
    (CHOOSE r \in rt : r.token = tokenString).userId

RefreshStarted == { req \in reqs' \ reqs : req.kind = "refresh" }
RefreshAnswered == { req \in reqs \ reqs' : req.kind = "refresh" }

\* C1: redeeming a refresh token succeeds if and only if a record with that
\* token string exists, its revocation time is null and the current time is
\* strictly before its expiry time; on success the lookup yields the id of
\* the record's owner and POST /api/refresh answers 200 with an access token
\* of that user; in every other case the lookup yields nothing and the
\* handler answers with its UnauthorizedError (401) and no token.
C1_RedeemIffUsable ==
    [][/\ \A req \in RefreshStarted :
             req.user = IF Usable(refreshTokens, req.tok, now)
                        THEN << OwnerOf(refreshTokens, req.tok) >>
                        ELSE << >>
       /\ \A req \in RefreshAnswered :
             /\ last'.op = "refresh"
             /\ IF req.user # << >>
                THEN /\ last'.status = 200
                     /\ validateJWT(last'.jwt, jwtSecret, now) = Ok(req.user[1])
                ELSE /\ last'.status = 401
                     /\ last'.jwt = NoToken]_vars

C1_Witness ==
    /\ last.op = "refresh"
    /\ last.status = 200
    /\ \E r \in refreshTokens :
          /\ r.token = last.rt
          /\ validateJWT(last.jwt, jwtSecret, now) = Ok(r.userId)

\* C2: once a record's revocation time is set, no step of any operation sets
\* it back to null, and every redeem of that token from then on finds
\* nothing and is answered 401, even while the expiry time is in the future.
C2_RevokedStaysRevoked ==
    [][\A r \in refreshTokens :
          r.revokedAt # NULL =>
             /\ \A r2 \in refreshTokens' : r2.token = r.token => r2.revokedAt # NULL
             /\ getUserFromRefreshToken(refreshTokens', users', r.token, now') = << >>
             /\ \A req \in RefreshStarted : req.tok = r.token => req.user = << >>
             /\ \A req \in RefreshAnswered :
                   (req.tok = r.token /\ req.afterRevoke) => last'.status = 401]_vars

C2_Witness ==
    /\ last.op = "refresh"
    /\ last.rt # NoToken
    /\ last.status = 401
    /\ \E r \in refreshTokens :
          /\ r.token = last.rt
          /\ r.revokedAt # NULL
          /\ r.expiresAt > now

\* C3: a refresh whose record lookup executes after the revoke's update of
\* that record has committed never returns an access token; a refresh that
\* succeeds made its lookup before that commit.
C3_NoTokenAfterRevokeCommitted ==
    /\ \A req \in reqs :
          (req.kind = "refresh" /\ req.afterRevoke) => req.user = << >>
    /\ (last.op = "refresh" /\ last.rt # NoToken) =>
          /\ last.afterRevoke => (last.status = 401 /\ last.jwt = NoToken)
          /\ last.status = 200 => ~last.afterRevoke

\* the tolerated race: the revoke committed between the lookup and the answer
C3_Witness ==
    /\ last.op = "refresh"
    /\ last.status = 200
    /\ ~last.afterRevoke
    /\ \E r \in refreshTokens : r.token = last.rt /\ r.revokedAt = <<now>>

\* C4: no step of POST /api/refresh changes the refresh-token records: a
\* redemption neither changes the record it redeems nor creates one, so the
\* token redeems to the same user right after a successful answer as before.
C4_RefreshLeavesRecords ==
    [][(RefreshStarted # {} \/ RefreshAnswered # {} \/ last'.op = "refresh") =>
          /\ refreshTokens' = refreshTokens
          /\ \A req \in RefreshAnswered :
                getUserFromRefreshToken(refreshTokens', users', req.tok, now')
                   = getUserFromRefreshToken(refreshTokens, users, req.tok, now)]_vars

C4_Witness ==
    /\ last.op = "refresh"
    /\ last.status = 200
    /\ Cardinality(refreshTokens) = 1
    /\ \E r \in refreshTokens :
          /\ r.token = last.rt
          /\ r.updatedAt = r.createdAt
          /\ Usable(refreshTokens, r.token, now)

\* a revoke request that carried a token string, answered in this step
RevokeAnswered == last'.op = "revoke" /\ last'.rt # NoToken

\* C5 as stated: revoking a token string for which no record exists is
\* answered with status 404 and changes no refresh-token record.
C5_UnknownTokenIs404 ==
    [][(RevokeAnswered /\ ~\E r \in refreshTokens : r.token = last'.rt) =>
          /\ last'.status = 404
          /\ refreshTokens' = refreshTokens]_vars

\* C5 as amended: revoking a token string for which no record exists fails
\* with the handler's UnauthorizedError, which is answered with status 401,
\* and changes no refresh-token record.
C5_UnknownTokenIs401 ==
    [][(RevokeAnswered /\ ~\E r \in refreshTokens : r.token = last'.rt) =>
          /\ last'.status = 401
          /\ refreshTokens' = refreshTokens]_vars

C5_Witness ==
    /\ last.op = "revoke"
    /\ last.rt # NoToken
    /\ last.prior = {}
    /\ last.status = 401
    /\ refreshTokens # {}

\* C6: revoke succeeds on any existing record, whatever its state: it answers
\* 204 also when the record is already revoked or its expiry has elapsed,
\* the record's revocation time is then the time of this revoke, and the
\* token is unusable.
C6_RevokeAnyExistingRecord ==
    (last.op = "revoke" /\ last.rt # NoToken /\ last.prior # {}) =>
       /\ last.status = 204
       /\ \E r \in refreshTokens : r.token = last.rt /\ r.revokedAt = <<now>>
       /\ \A r \in refreshTokens : r.token = last.rt => r.revokedAt = <<now>>
       /\ ~Usable(refreshTokens, last.rt, now)
       /\ getUserFromRefreshToken(refreshTokens, users, last.rt, now) = << >>

\* an already revoked record whose expiry has elapsed is revoked again
C6_Witness ==
    /\ last.op = "revoke"
    /\ last.status = 204
    /\ \E p \in last.prior : p # NULL /\ p[1] < now
    /\ \E r \in refreshTokens :
          r.token = last.rt /\ r.revokedAt = <<now>> /\ r.expiresAt <= now

----------------------------------------------------------------------------
(* The token codec on its own: tokens are issued or presented, then        *)
(* validated, while the clock advances.                                    *)

NoIssue == [set |-> FALSE]
NoCheck == [set |-> FALSE]

\* token strings that makeJWT did not produce: malformed strings, a refresh
\* token, and signed tokens with other payloads and headers
MalformedTokens ==
    { Str(<<"x">>), Str(<<"a", ".", "b", ".", "c", ".", "d">>), <<HexChunk("r1")>>, <<>> }

PresentedJwts(t) ==
    { << JwtChunk([alg |-> a, iss |-> "chirpy", sub |-> s, iat |-> Sec(t),
                   exp |-> Sec(t) + L, nbf |-> n, key |-> k]) >> :
        a \in {"HS256", "none"}, s \in {NoSub, "", "u1"}, L \in {0, 3600},
        n \in {NoNbf, <<Sec(t) + 1>>}, k \in Secrets }

JwtTick ==
    /\ ticks < MaxJwtTicks
    /\ \E d \in TickSteps : now' = now + d
    /\ ticks' = ticks + 1
    /\ UNCHANGED <<harness, http>>

JwtIssue ==
    /\ \E s \in Subjects \cup {""}, L \in Lifetimes, k \in Secrets :
          issued' = [set |-> TRUE, made |-> TRUE, sub |-> s, L |-> L, secret |-> k,
                     at |-> now, tok |-> makeJWT(s, L, k, now)]
    /\ checked' = NoCheck
    /\ UNCHANGED <<clock, http>>

JwtPresent ==
    /\ \E tok \in MalformedTokens \cup PresentedJwts(now) :
          issued' = [set |-> TRUE, made |-> FALSE, at |-> now, tok |-> tok]
    /\ checked' = NoCheck
    /\ UNCHANGED <<clock, http>>

JwtValidate ==
    /\ issued.set
    /\ \E k \in Secrets :
          checked' = [set |-> TRUE, secret |-> k, at |-> now,
                      res |-> validateJWT(issued.tok, k, now)]
    /\ UNCHANGED <<clock, issued, http>>

InitJWT ==
    /\ now = 0
    /\ ticks = 0
    /\ issued = NoIssue
    /\ checked = NoCheck
    /\ InitHttp

NextJWT == JwtTick \/ JwtIssue \/ JwtPresent \/ JwtValidate

SpecJWT == InitJWT /\ [][NextJWT]_vars

----------------------------------------------------------------------------
(* Properties of the token codec, under SpecJWT *)

\* the token under test is well formed and carries an HS256 signature made
\* with secret k
SignedWith(tok, k) ==
    /\ WellFormedJwt(tok)
    /\ tok[1][2].alg = "HS256"
    /\ tok[1][2].key = k

PayloadOf(tok) == tok[1][2]

InvalidToken == Throw("Error", "Invalid token")
TokenExpired == Throw("Error", "Token has expired")

\* C7: validateJWT of a token correctly signed with the given secret fails
\* with "Token has expired", and not with "Invalid token", whenever the
\* current whole-second time is greater than or equal to the token's exp; in
\* particular a token issued with lifetime 0, from its issuance instant on.
C7_ExpiredGivesTokenExpired ==
    (/\ checked.set
     /\ SignedWith(issued.tok, checked.secret)
     /\ PayloadOf(issued.tok).nbf = NoNbf
     /\ Sec(checked.at) >= PayloadOf(issued.tok).exp)
    => checked.res = TokenExpired

\* C8 as stated: for all subjects s and all lifetimes L >= 0, a token made
\* by makeJWT(s, L, secret) and validated with the same secret immediately
\* after issuance yields exactly s.
C8_RoundTripAnyLifetime ==
    (/\ checked.set
     /\ issued.made
     /\ checked.secret = issued.secret
     /\ checked.at = issued.at)
    => checked.res = Ok(issued.sub)

\* C8 as amended: for all non-empty subjects s and all lifetimes L >= 1, a
\* token made by makeJWT(s, L, secret) and validated with the same secret
\* immediately after issuance yields exactly s, and tokens issued for two
\* different subjects validate to two different subjects.
C8_RoundTrip ==
    /\ (/\ checked.set
        /\ issued.made
        /\ issued.sub # ""
        /\ issued.L >= 1
        /\ checked.secret = issued.secret
        /\ checked.at = issued.at)
       => checked.res = Ok(issued.sub)
    /\ \A s1 \in Subjects, s2 \in Subjects, L \in Lifetimes \ {0}, k \in Secrets :
          s1 # s2 =>
             validateJWT(makeJWT(s1, L, k, now), k, now)
                # validateJWT(makeJWT(s2, L, k, now), k, now)

C8_Witness ==
    /\ checked.set
    /\ issued.made
    /\ issued.sub \in Subjects
    /\ issued.L >= 1
    /\ checked.secret = issued.secret
    /\ checked.at = issued.at
    /\ checked.res = Ok(issued.sub)

\* C9: validateJWT fails with "Invalid token", and returns no subject,
\* whenever the token string is not a well-formed token signed with the secret
\* given to validateJWT: a token issued under another secret and a malformed
\* string are both rejected with that outcome.
C9_WrongSecretOrMalformedIsInvalid ==
    (checked.set /\ ~SignedWith(issued.tok, checked.secret))
    => checked.res = InvalidToken

C9_Witness ==
    /\ checked.set
    /\ issued.made
    /\ issued.L >= 1
    /\ checked.at = issued.at
    /\ checked.secret # issued.secret
    /\ checked.res = InvalidToken

\* C10: validateJWT of a correctly signed, unexpired token whose payload
\* carries no subject fails with "Invalid token", the outcome of a bad
\* signature or a malformed token.
C10_NoSubjectIsInvalidToken ==
    (/\ checked.set
     /\ SignedWith(issued.tok, checked.secret)
     /\ PayloadOf(issued.tok).nbf = NoNbf
     /\ Sec(checked.at) < PayloadOf(issued.tok).exp
     /\ PayloadOf(issued.tok).sub = NoSub)
    => checked.res = InvalidToken

\* C11: the payload of every token produced by makeJWT(s, L, secret) has
\* iss = "chirpy", sub = s, iat = the whole-second time of issuance and
\* exp = iat + L, so exp - iat = L, and of two lifetimes issued at the same
\* instant the longer one gives the strictly later exp.
C11_PayloadFields ==
    /\ (issued.set /\ issued.made) =>
          LET payload == PayloadOf(issued.tok) IN
          /\ payload.iss = "chirpy"
          /\ payload.sub = issued.sub
          /\ payload.iat = Sec(issued.at)
          /\ payload.exp = payload.iat + issued.L
          /\ payload.exp - payload.iat = issued.L
    /\ \A s \in Subjects, k \in Secrets, L1 \in Lifetimes, L2 \in Lifetimes :
          L1 < L2 => PayloadOf(makeJWT(s, L1, k, now)).exp
                        < PayloadOf(makeJWT(s, L2, k, now)).exp

C11_Witness ==
    /\ issued.set
    /\ issued.made
    /\ issued.L = 3600
    /\ issued.at > 0
    /\ Sec(issued.at) * SubsPerSec # issued.at
    /\ PayloadOf(issued.tok).iat = Sec(issued.at)
    /\ PayloadOf(issued.tok).exp = Sec(issued.at) + 3600

----------------------------------------------------------------------------
(* The bearer extractor and the password hasher on their own: headers are  *)
(* extracted, passwords are hashed, digests are stored and verified.        *)

\* runs of whitespace around the parts of a header
WsRuns == { <<>>, Str(<<" ">>), Str(<<"\t", " ">>) }
\* what stands between the scheme and the token
Gaps == { <<>>, Str(<<" ">>), Str(<<" ", " ">>), Str(<<"\t">>), Str(<<" ", "\n">>) }
Schemes == { <<>>,
             Str(<<"B", "e", "a", "r", "e", "r">>),
             Str(<<"b", "e", "a", "r", "e", "r">>),
             Str(<<"B", "a", "s", "i", "c">>) }
HeaderTokens == { <<>>, Str(<<"x">>), Str(<<"a", " ", "b">>), makeRefreshToken("r1"),
                  Str(<<"x", "y", "z">>) }

AuthPasswords == {"pw1", "pw2", "unset"}
AuthSalts == {"s1", "s2"}
\* digests that argon2.hash did not produce
ForeignHashes ==
    { <<"invalid", "", p>> : p \in AuthPasswords } \cup { <<"bcrypt", "s1", "pw1">> }

\* the one user of the table that a login is tried against
StoredUser(hash) ==
    [id |-> UuidOrder[1], email |-> "a@x", hashed_password |-> hash,
     is_chirpy_red |-> FALSE]

BearerExtract ==
    /\ \E lead \in WsRuns, scheme \in Schemes, gap \in Gaps, tok \in HeaderTokens,
          trail \in WsRuns, absent \in BOOLEAN :
          LET hdr == IF absent THEN Undefined
                     ELSE lead \o scheme \o gap \o tok \o trail
          IN  /\ absent => (lead = <<>> /\ scheme = <<>> /\ gap = <<>> /\ tok = <<>>
                              /\ trail = <<>>)
              /\ checked' = [set |-> TRUE, kind |-> "bearer", hdr |-> hdr,
                             scheme |-> scheme, gap |-> gap, tok |-> tok,
                             res |-> getBearerToken(hdr)]
    /\ issued' = NoIssue
    /\ UNCHANGED <<clock, http>>

PwHash ==
    /\ \E password \in AuthPasswords, salt \in AuthSalts :
          issued' = [set |-> TRUE, made |-> TRUE, password |-> password,
                     hash |-> hashPassword(password, salt)]
    /\ checked' = NoCheck
    /\ UNCHANGED <<clock, http>>

PwStore ==
    /\ \E hash \in ForeignHashes :
          issued' = [set |-> TRUE, made |-> FALSE, hash |-> hash]
    /\ checked' = NoCheck
    /\ UNCHANGED <<clock, http>>

PwCheck ==
    /\ issued.set
    /\ \E password \in AuthPasswords :
          checked' = [set |-> TRUE, kind |-> "check", password |-> password,
                      res |-> checkPasswordHash(password, issued.hash)]
    /\ UNCHANGED <<clock, issued, http>>

PwLogin ==
    /\ issued.set
    /\ \E email \in Emails, password \in AuthPasswords :
          checked' = [set |-> TRUE, kind |-> "login", email |-> email,
                      password |-> password,
                      res |-> loginLookup({StoredUser(issued.hash)}, email, password)]
    /\ UNCHANGED <<clock, issued, http>>

NextAuth == BearerExtract \/ PwHash \/ PwStore \/ PwCheck \/ PwLogin

SpecAuth == InitJWT /\ [][NextAuth]_vars

----------------------------------------------------------------------------
(* Properties of the bearer extractor and the password hasher, under       *)
(* SpecAuth                                                                *)

Blank(ch) == ch = Ch(" ") \/ ch = Ch("\t") \/ ch = Ch("\n")
OnlyBlanks(s) == \A i \in DOMAIN s : Blank(s[i])

\* the header without the blanks before its first and after its last
\* character that is no blank
Trimmed(s) ==
    LET I == { i \in DOMAIN s : ~Blank(s[i]) } IN
    IF I = {} THEN <<>>
    ELSE SubSeq(s, CHOOSE i \in I : \A j \in I : i <= j,
                   CHOOSE i \in I : \A j \in I : j <= i)

BeginsWithBearer(s) ==
    /\ Len(s) >= 7
    /\ \A i \in 1..7 : s[i] = Ch(<<"B", "e", "a", "r", "e", "r", " ">>[i])

MissingAuthorization == Throw("Error", "Authorization header is missing")
MalformedAuthorization == Throw("Error", "Authorization header must start with 'Bearer '")

Extracted == checked.set /\ checked.kind = "bearer"

HeaderMissing == checked.hdr = Undefined \/ checked.hdr = <<>> \/ OnlyBlanks(checked.hdr)

\* C12: getBearerToken fails with "Authorization header is missing" exactly
\* when the header is absent, is the empty string, or consists only of
\* whitespace.
C12_MissingIffAbsentOrBlank ==
    Extracted => (checked.res = MissingAuthorization <=> HeaderMissing)

C12_Witness ==
    /\ Extracted
    /\ checked.hdr # Undefined
    /\ Len(checked.hdr) >= 2
    /\ OnlyBlanks(checked.hdr)
    /\ checked.res = MissingAuthorization

\* C13: getBearerToken fails with "Authorization header must start with
\* 'Bearer '" for every header that is present and not blank and whose
\* trimmed value does not begin with the prefix "Bearer " in exactly this
\* case and with its space: another scheme, the scheme in lower case, and
\* "Bearer" followed by nothing or by whitespace only.
C13_MalformedUnlessBearerPrefix ==
    /\ (Extracted /\ ~HeaderMissing /\ ~BeginsWithBearer(Trimmed(checked.hdr)))
          => checked.res = MalformedAuthorization
    /\ (/\ Extracted
        /\ ~HeaderMissing
        /\ \/ checked.scheme = Str(<<"B", "a", "s", "i", "c">>)
           \/ checked.scheme = Str(<<"b", "e", "a", "r", "e", "r">>)
           \/ checked.scheme = Str(<<"B", "e", "a", "r", "e", "r">>) /\ checked.tok = <<>>)
          => checked.res = MalformedAuthorization

\* the scheme in lower case, followed by a space and a token
C13_Witness ==
    /\ Extracted
    /\ checked.scheme = Str(<<"b", "e", "a", "r", "e", "r">>)
    /\ checked.gap = Str(<<" ">>)
    /\ checked.tok = Str(<<"x">>)
    /\ checked.res = MalformedAuthorization

\* C14: for every header made of whitespace, "Bearer ", whitespace, a
\* non-empty token without leading or trailing whitespace, and whitespace,
\* getBearerToken returns exactly the token.
C14_ReturnsTokenUnchanged ==
    (/\ Extracted
     /\ checked.hdr # Undefined
     /\ checked.scheme = Str(<<"B", "e", "a", "r", "e", "r">>)
     /\ checked.gap # <<>>
     /\ checked.gap[1] = Ch(" ")
     /\ checked.tok # <<>>)
    => checked.res = Ok(checked.tok)

\* whitespace before the header, more than one blank after the prefix and a
\* token with a blank inside
C14_Witness ==
    /\ Extracted
    /\ Len(checked.gap) = 2
    /\ checked.tok = Str(<<"a", " ", "b">>)
    /\ Blank(checked.hdr[1])
    /\ Blank(checked.hdr[Len(checked.hdr)])
    /\ checked.res = Ok(checked.tok)

WrongCredentials == Throw("UnauthorizedError", "Incorrect email or password")

Verified == checked.set /\ checked.kind = "check"
LoginTried == checked.set /\ checked.kind = "login"

\* C15: checkPasswordHash(p, hashPassword(p)) is true for every password p
\* and every salt, checkPasswordHash(p2, hashPassword(p1)) is false for
\* every p2 different from p1, and a login gets past the password check
\* only with the password whose digest is stored on the user.
C15_VerifyIffSamePassword ==
    /\ (Verified /\ issued.made) =>
          checked.res = (checked.password = issued.password)
    /\ (LoginTried /\ issued.made) =>
          IF checked.email = StoredUser(issued.hash).email
                /\ checked.password = issued.password
          THEN checked.res = Ok(StoredUser(issued.hash))
          ELSE checked.res = WrongCredentials
    /\ \A p \in AuthPasswords, s1 \in AuthSalts, s2 \in AuthSalts :
          s1 # s2 => /\ hashPassword(p, s1) # hashPassword(p, s2)
                     /\ checkPasswordHash(p, hashPassword(p, s2))

C15_Witness ==
    /\ Verified
    /\ issued.made
    /\ checked.password = issued.password
    /\ checked.res = TRUE

\* C16: for a digest that is structurally invalid or of another format
\* checkPasswordHash returns false, whatever the password, as it does for a
\* wrong password, and a login against a user with such a digest is refused
\* with the outcome of wrong credentials, answered 401.
C16_MalformedHashIsFalse ==
    /\ (Verified /\ ~issued.made) => checked.res = FALSE
    /\ (LoginTried /\ ~issued.made) =>
          /\ checked.res = WrongCredentials
          /\ errorHandler(checked.res) = 401

\* the stored text is the very password that is tried
C16_Witness ==
    /\ LoginTried
    /\ ~issued.made
    /\ issued.hash[3] = checked.password
    /\ checked.email = StoredUser(issued.hash).email
    /\ checked.res = WrongCredentials

----------------------------------------------------------------------------
(* Properties of the protected actions, under SpecChirps and SpecSession *)

\* the token that a header of the form "Bearer <token>" carries
CarriedToken(hdr) ==
    IF hdr # Undefined /\ Len(hdr) > 7 /\ SubSeq(hdr, 1, 7) = BearerPrefix
    THEN SubSeq(hdr, 8, Len(hdr))
    ELSE NoToken

\* the token is signed with the server's secret, for the subject u
SignedFor(hdr, u) ==
    /\ SignedWith(CarriedToken(hdr), jwtSecret)
    /\ PayloadOf(CarriedToken(hdr)).nbf = NoNbf
    /\ PayloadOf(CarriedToken(hdr)).sub = u

\* the header carries a valid access token of user u at time t
ValidFor(hdr, u, t) == SignedFor(hdr, u) /\ Sec(t) < PayloadOf(CarriedToken(hdr)).exp

Authenticated(hdr, t) == \E u \in UserIds : ValidFor(hdr, u, t)

\* no header, a header that is no bearer header, a token that is malformed
\* or badly signed, or a token of a user that has expired
NoValidToken(hdr, t) ==
    \/ CarriedToken(hdr) = NoToken
    \/ ~SignedWith(CarriedToken(hdr), jwtSecret)
    \/ \E u \in UserIds : SignedFor(hdr, u) /\ ~ValidFor(hdr, u, t)

DeleteStarted == { req \in reqs' \ reqs : req.kind = "deleteChirp" }
DeleteFinished == { req \in reqs \ reqs' : req.kind = "deleteChirp" }

\* C17: a chirp is deleted by DELETE /api/chirps/:id only for a request
\* that carried a valid access token whose subject is the chirp's owner; a
\* request with a valid token of another user is answered 403 and the chirp
\* is still there.
C17_DeleteOnlyByOwner ==
    [][/\ \A req \in DeleteStarted :
             \E c \in chirps : c.id = req.chirpID /\ ValidFor(req.hdr, c.userId, now)
       /\ \A c \in chirps \ chirps' :
             \E req \in DeleteFinished :
                c.id = req.chirpID /\ ValidFor(req.hdr, c.userId, req.at)
       /\ (last'.op = "deleteChirp" /\ DeleteFinished = {}) =>
             \A c \in chirps :
                (/\ c.id = last'.chirpID
                 /\ Authenticated(last'.hdr, now)
                 /\ ~ValidFor(last'.hdr, c.userId, now))
                => (last'.status = 403 /\ chirps' = chirps)]_vars

C17_Witness ==
    /\ last.op = "deleteChirp"
    /\ last.status = 403
    /\ \E c \in chirps :
          /\ c.id = last.chirpID
          /\ Authenticated(last.hdr, last.at)
          /\ ~ValidFor(last.hdr, c.userId, last.at)

\* C18: on delete chirp a request without a valid access token (missing
\* or malformed header, malformed, badly signed or expired token) is
\* answered 401 whether or not the chirp exists and whoever owns it, and a
\* request with a valid access token is answered 204, 403 or 404.
C18_Delete401IffNoValidToken ==
    last.op = "deleteChirp" =>
       /\ NoValidToken(last.hdr, last.at) => last.status = 401
       /\ Authenticated(last.hdr, last.at) => last.status \in {204, 403, 404}

\* the owner's own token, expired, on a chirp that exists
C18_Witness ==
    /\ last.op = "deleteChirp"
    /\ last.status = 401
    /\ \E c \in chirps :
          /\ c.id = last.chirpID
          /\ SignedFor(last.hdr, c.userId)
          /\ ~ValidFor(last.hdr, c.userId, last.at)

\* C19: during create chirp and delete chirp every failure of bearer
\* extraction or of access-token validation (missing or malformed header,
\* bad signature or format, expired token, token without a subject) is
\* answered 401, or 400 where the payload of a create is refused before the
\* header is read; none of them is answered 500.
C19_AuthFailureIsNever500 ==
    (last.op \in {"createChirp", "deleteChirp"} /\ ~Authenticated(last.hdr, last.at)) =>
       /\ last.status # 500
       /\ last.op = "deleteChirp" => last.status = 401
       /\ last.op = "createChirp" => last.status \in {400, 401}

\* the access tokens of the session of record r: the one of its login and
\* the one of a refresh at the instant of its revocation
SessionTokens(r) ==
    { makeJWT(r.userId, accessLifetime, jwtSecret, r.createdAt) }
    \cup { makeJWT(r.userId, accessLifetime, jwtSecret, r.revokedAt[i]) :
             i \in DOMAIN r.revokedAt }

\* C20: an access token minted at login or by a refresh passes validateJWT
\* at every time before its exp, also when the refresh token of its session
\* is revoked, and a protected action that carries it is not answered 401.
C20_AccessTokenOutlivesRevoke ==
    \A r \in refreshTokens : \A tok \in SessionTokens(r) :
       /\ Sec(now) < PayloadOf(tok).exp =>
             validateJWT(tok, jwtSecret, now) = Ok(r.userId)
       /\ (/\ last.op = "deleteChirp"
           /\ last.hdr = BearerHeader(tok)
           /\ Sec(last.at) < PayloadOf(tok).exp)
          => last.status \in {204, 403, 404}

\* the refresh token was revoked a second ago or longer
C20_Witness ==
    /\ last.op = "deleteChirp"
    /\ last.status = 404
    /\ \E r \in refreshTokens :
          /\ r.revokedAt # NULL
          /\ Sec(r.revokedAt[1]) < Sec(now)
          /\ last.hdr = BearerHeader(makeJWT(r.userId, accessLifetime, jwtSecret,
                                             r.createdAt))

----------------------------------------------------------------------------
(* The admin reset on every platform *)

\* values of PLATFORM; config.platform is "prod" when the variable is unset
Platforms == {"dev", "prod", "test"}

InitReset ==
    /\ now = 0
    /\ ticks = 0
    /\ issued = [set |-> FALSE]
    /\ checked = [set |-> FALSE]
    /\ platform \in Platforms
    /\ fileserverHits = 0
    /\ users = {}
    /\ refreshTokens = {}
    /\ reqs = {}
    /\ last = NoResp
    /\ retired = [ids |-> {}, tokens |-> {}, minted |-> {}]
    /\ chirps = {}

NextReset ==
    \/ MetricsInc
    \/ Reset
    \/ CreateUser
    \/ (Cardinality(refreshTokens) < MaxCredentialTokens /\ LoginLookup)
    \/ \E req \in reqs : LoginInsert(req)
    \/ (Cardinality(chirps) < MaxCredentialChirps /\ CreateChirp)

SpecReset == InitReset /\ [][NextReset]_vars

\* users are deleted while their records, chirps and access tokens are in
\* use, at one instant
NextCascade ==
    \/ Reset
    \/ CreateUser
    \/ (Cardinality(refreshTokens) < MaxCredentialTokens /\ LoginLookup)
    \/ \E req \in reqs : LoginInsert(req)
    \/ RefreshLookup
    \/ \E req \in reqs : RefreshRespond(req)
    \/ (Cardinality(chirps) < MaxCredentialChirps /\ CreateChirp)
    \/ UpdateUser

SpecCascade == Init /\ [][NextCascade]_vars

----------------------------------------------------------------------------
(* Properties of login and of the records of the tables, under Spec and
   SpecAccounts *)

LoginAnswered == { req \in reqs \ reqs' : req.kind = "login" }

\* C21: a login that succeeds inserts exactly one record: its token string
\* is the one returned and is the token of no earlier record, its owner is
\* the user that logged in, its revocation time is null and its expiry is
\* the time of the login plus 60 days; every earlier record stays as it was,
\* so the new token is redeemable and a revoked or expired one stays unusable.
C21_LoginInsertsOneFreshRecord ==
    [][\A req \in LoginAnswered : last'.status = 200 =>
          \E row \in refreshTokens' :
             /\ refreshTokens' = refreshTokens \cup {row}
             /\ \A r \in refreshTokens : r.token # row.token
             /\ Cardinality(refreshTokens') = Cardinality(refreshTokens) + 1
             /\ row.token = last'.refreshToken
             /\ row.userId = req.userId
             /\ row.revokedAt = NULL
             /\ row.expiresAt = now + sixtyDaysInMs
             /\ Usable(refreshTokens', row.token, now')
             /\ \E u \in users' : u.id = row.userId
             /\ \A r \in refreshTokens :
                   Usable(refreshTokens', r.token, now') <=>
                      Usable(refreshTokens, r.token, now)]_vars

\* a second login of a user whose earlier token is revoked or expired
C21_Witness ==
    /\ last.op = "login"
    /\ last.status = 200
    /\ Usable(refreshTokens, last.refreshToken, now)
    /\ \E old \in refreshTokens :
          /\ old.token # last.refreshToken
          /\ old.userId = OwnerOf(refreshTokens, last.refreshToken)
          /\ ~Usable(refreshTokens, old.token, now)

\* no two records have the same token string
TokensUnique(rt) == \A r1 \in rt, r2 \in rt : r1.token = r2.token => r1 = r2

\* the token strings that a login may generate and a record already has
Colliding(rt) == { r.token : r \in rt }

\* C23: no two refresh-token records share a token string; a login whose
\* generated string is that of an existing record is answered with an
\* error and leaves every record as it was.
C23_TokenStringsUnique ==
    [][/\ TokensUnique(refreshTokens')
       /\ \A req \in LoginAnswered :
             \/ /\ last'.status = 200
                /\ last'.refreshToken \notin Colliding(refreshTokens)
             \/ /\ last'.status >= 400
                /\ refreshTokens' = refreshTokens]_vars

\* a login failed on the insert while its user and a record exist
C23_Witness ==
    /\ last.op = "login"
    /\ last.status = 500
    /\ refreshTokens # {}
    /\ \A r \in refreshTokens : \E u \in users : u.id = r.userId
    /\ Cardinality(users) = Cardinality(UserIds)

\* no two users have the same email
EmailsUnique(us) == \A u1 \in us, u2 \in us : u1.email = u2.email => u1 = u2

\* another user than the one the header authenticates holds the email
HeldByAnother(us, email, hdr, t) ==
    \E u \in us : u.email = email /\ ~ValidFor(hdr, u.id, t)

\* C24: no two users have the same email, however registrations and
\* credential updates interleave; a registration with an email that a user
\* holds and an update to an email that another user holds are answered with
\* an error, create no user and leave every user record as it was.
C24_EmailsUnique ==
    [][/\ EmailsUnique(users')
       /\ last'.op = "createUser" =>
             \/ last'.status = 400 /\ users' = users
             \/ /\ last'.status = 201
                /\ \E new \in users' :
                      /\ users' = users \cup {new}
                      /\ \A u \in users : u.email # new.email /\ u.id # new.id
       /\ (last'.op = "updateUser" /\ HeldByAnother(users, last'.email, last'.hdr, now)) =>
             (last'.status >= 400 /\ users' = users)]_vars

\* a user with a valid token asked for the email of the other user
C24_Witness ==
    /\ last.op = "updateUser"
    /\ last.status = 400
    /\ \E u \in users, v \in users :
          /\ u # v
          /\ ValidFor(last.hdr, u.id, now)
          /\ v.email = last.email
          /\ v.hashed_password[3] \in RegisterPasswords

\* the record is redeemable: usable, and its owner exists
Redeemable(rt, us, r, t) ==
    Usable(rt, r.token, t) /\ \E u \in us : u.id = r.userId

UnknownEmail(us, email) == email # "" /\ ~\E u \in us : u.email = email
WrongPassword(us, email, password) ==
    \E u \in us : u.email = email /\ u.hashed_password[3] # password

\* C29: a login with an unknown email and a login with a wrong password get
\* the same answer, 401 with the message "Incorrect email or password";
\* neither inserts a refresh-token record nor returns a token.
C29_FailedLoginsAlike ==
    [][(/\ last'.op = "login"
        /\ "email" \in DOMAIN last'
        /\ \/ UnknownEmail(users, last'.email)
           \/ WrongPassword(users, last'.email, last'.password)) =>
          /\ last' = [op |-> "login", status |-> 401,
                      error |-> "Incorrect email or password",
                      email |-> last'.email, password |-> last'.password]
          /\ refreshTokens' = refreshTokens
          /\ reqs' = reqs]_vars

\* a login with the email of a user and another password than its own,
\* while that user holds a refresh token
C29_Witness ==
    /\ last.op = "login"
    /\ last.status = 401
    /\ WrongPassword(users, last.email, last.password)
    /\ \E u \in users, r \in refreshTokens : u.email = last.email /\ r.userId = u.id

----------------------------------------------------------------------------
(* Properties of the webhook, under SpecPolka *)

\* the header is "ApiKey <key>" with the configured key, blanks around the
\* header and around the key aside
CarriesKey(hdr) ==
    /\ hdr # Undefined
    /\ Len(Trimmed(hdr)) > 7
    /\ SubSeq(Trimmed(hdr), 1, 7) = ApiKeyPrefix
    /\ Trimmed(SubSeq(Trimmed(hdr), 8, Len(Trimmed(hdr)))) = polkaKey

\* C26: the webhook changes a user record only for a request that carries
\* the configured API key; a request without the key, with a malformed
\* header or with another key is answered 401 whatever its event and its
\* userId are, and changes no record.
C26_WebhookNeedsKey ==
    [][last'.op = "polka" =>
          /\ users' # users => CarriesKey(last'.hdr)
          /\ ~CarriesKey(last'.hdr) =>
                /\ last'.status = 401
                /\ users' = users
                /\ refreshTokens' = refreshTokens
                /\ chirps' = chirps]_vars

\* user.upgraded for an existing user that is not upgraded, with another key
C26_Witness ==
    /\ last.op = "polka"
    /\ last.status = 401
    /\ last.hdr = ApiKeyPrefix \o otherKey
    /\ last.event = "user.upgraded"
    /\ \E u \in users : u.id = last.userId /\ ~u.is_chirpy_red

\* the users after the upgrade of the user id
Upgraded(us, id) ==
    { IF u.id = id THEN [u EXCEPT !.is_chirpy_red = TRUE] ELSE u : u \in us }

----------------------------------------------------------------------------
(* Properties of the creation of chirps, under SpecChirps *)

\* C30: a chirp appears only by a POST /api/chirps that is answered 201 and
\* carries a valid access token, and its owner is the subject of that token,
\* whatever userId the payload names; without a valid access token no chirp
\* is created.
C30_ChirpOwnerIsTokenSubject ==
    [][/\ \A c \in chirps' \ chirps :
             /\ last'.op = "createChirp"
             /\ last'.status = 201
             /\ c.id = last'.chirpID
             /\ ValidFor(last'.hdr, c.userId, now)
             /\ chirps' = chirps \cup {c}
       /\ (last'.op = "createChirp" /\ ~Authenticated(last'.hdr, now)) =>
             chirps' = chirps]_vars

\* a chirp was created with the token of a user while the user that the
\* payloads name exists and is another one
C30_Witness ==
    /\ last.op = "createChirp"
    /\ last.status = 201
    /\ \E c \in chirps, u \in users :
          /\ c.id = last.chirpID
          /\ ValidFor(last.hdr, c.userId, last.at)
          /\ u.id \in PayloadUserIds
          /\ u.id # c.userId

----------------------------------------------------------------------------
(* Frame of the refresh-token records, under SpecAccounts *)

\* the record as a revoke at time t leaves it
RevokedAt(r, t) == [r EXCEPT !.revokedAt = <<t>>, !.updatedAt = t]

\* C22: a refresh-token record changes only by the revoke of its token
\* string, and then in its revocation time and update time only; a revoke
\* changes no other record, no other operation changes or removes a record,
\* and a record disappears only together with its owning user.
C22_RecordsChangeOnlyByRevoke ==
    [][\A r \in refreshTokens :
          \/ r \in refreshTokens'
          \/ /\ last'.op = "revoke"
             /\ last'.rt = r.token
             /\ RevokedAt(r, now) \in refreshTokens'
             /\ \A x \in refreshTokens' : x.token = r.token => x = RevokedAt(r, now)
          \/ /\ \E u \in users : u.id = r.userId
             /\ ~\E u \in users' : u.id = r.userId
             /\ ~\E x \in refreshTokens' : x.token = r.token]_vars

\* a revoke of one of two records that were active; the other one is active
C22_Witness ==
    /\ last.op = "revoke"
    /\ last.status = 204
    /\ last.prior = {NULL}
    /\ \E r \in refreshTokens, x \in refreshTokens :
          /\ r.token = last.rt
          /\ r.revokedAt # NULL
          /\ x.token # r.token
          /\ x.userId = r.userId
          /\ x.revokedAt = NULL

----------------------------------------------------------------------------
(* The two credentials, under SpecCredentials *)

IsRefreshString(tok) == Len(tok) = 1 /\ tok[1][1] = "hex"
IsAccessToken(tok) == Len(tok) = 1 /\ tok[1][1] = "jwt"

\* a protected action whose bearer credential is a refresh-token string
RefreshAsBearer(l) ==
    /\ l.op \in {"createChirp", "deleteChirp", "updateUser"}
    /\ IsRefreshString(CarriedToken(l.hdr))

\* a refresh or a revoke whose credential is an access token
AccessAsRefresh(l) == l.op \in {"refresh", "revoke"} /\ IsAccessToken(l.rt)

\* C25 as the claim states it: a refresh-token string as the bearer
\* credential of a protected action is always answered 401, and an access
\* token is never accepted by refresh or revoke.
C25_RefreshAsBearerIs401 ==
    [][/\ RefreshAsBearer(last') => last'.status = 401
       /\ AccessAsRefresh(last') => last'.status = 401]_vars

\* C25: a refresh-token string as the bearer credential of a protected
\* action is always refused and changes nothing: delete chirp answers 401,
\* update user answers 400 for a payload without email and else 401, create
\* chirp answers 400 or 401; an access token sent to refresh or revoke is
\* answered 401, mints no token and changes no record.
C25_CredentialsNotInterchangeable ==
    [][/\ RefreshAsBearer(last') =>
             /\ last'.op = "deleteChirp" => last'.status = 401
             /\ last'.op = "updateUser" =>
                   last'.status = IF last'.email = "" THEN 400 ELSE 401
             /\ last'.op = "createChirp" => last'.status \in {400, 401}
             /\ users' = users
             /\ chirps' = chirps
             /\ refreshTokens' = refreshTokens
       /\ AccessAsRefresh(last') =>
             /\ last'.status = 401
             /\ last'.op = "refresh" => last'.jwt = NoToken
             /\ refreshTokens' = refreshTokens]_vars

\* the refresh token of a session that is active was sent to create a chirp
C25_Witness ==
    /\ last.op = "createChirp"
    /\ last.status = 401
    /\ \E r \in refreshTokens :
          /\ last.hdr = BearerHeader(r.token)
          /\ Redeemable(refreshTokens, users, r, now)

\* C37: whenever getBearerToken returns, the returned token is not empty and
\* neither begins nor ends with whitespace; no header makes it return the
\* empty string.
C37_ReturnedTokenNonEmptyTrimmed ==
    (Extracted /\ checked.res.ok)
    => /\ checked.res.val # <<>>
       /\ ~Blank(checked.res.val[1])
       /\ ~Blank(checked.res.val[Len(checked.res.val)])

\* a header with blanks before the scheme, a wide gap and blanks after the
\* token, from which a token was returned
C37_Witness ==
    /\ Extracted
    /\ checked.hdr # Undefined
    /\ checked.hdr # <<>>
    /\ Blank(checked.hdr[1])
    /\ Blank(checked.hdr[Len(checked.hdr)])
    /\ Len(checked.gap) >= 2
    /\ checked.res.ok
    /\ Len(checked.res.val) >= 3

----------------------------------------------------------------------------
(* Properties of the admin reset, under SpecReset *)

\* C34: POST /admin/reset has an effect only on the platform "dev": on any
\* other platform it is answered 403, no user, chirp or refresh-token record
\* is deleted and the hit counter keeps its value; on "dev" it deletes every
\* user and sets the hit counter to 0.
C34_ResetOnlyOnDev ==
    [][ last'.op = "reset"
        => IF platform = "dev"
           THEN /\ users' = {}
                /\ fileserverHits' = 0
           ELSE /\ last'.status = 403
                /\ users' = users
                /\ chirps' = chirps
                /\ refreshTokens' = refreshTokens
                /\ fileserverHits' = fileserverHits ]_vars

\* a reset was refused on a platform that has a user, a refresh-token
\* record, a chirp and counted page views
C34_Witness ==
    /\ last.op = "reset"
    /\ last.status = 403
    /\ platform # "dev"
    /\ users # {}
    /\ refreshTokens # {}
    /\ chirps # {}
    /\ fileserverHits > 0

----------------------------------------------------------------------------
(* Properties of overlapping deletes, under SpecRace *)

\* C32: when two delete requests for the same chirp, both with a valid
\* access token of its owner, run concurrently, in every interleaving
\* exactly one is answered 204 and the other 404, and the chirp is absent
\* afterwards: a delete that finishes is answered 204 when the chirp is
\* there, and then removes it, and 404 when it is gone; a delete arriving
\* for a chirp that is gone is answered 404; the id of a deleted chirp is
\* given to no later chirp.
C32_OneOfTwoDeletesWins ==
    [][/\ \A req \in DeleteFinished :
             /\ \E u \in UserIds : ValidFor(req.hdr, u, req.at)
             /\ IF \E c \in chirps : c.id = req.chirpID
                THEN /\ last'.status = 204
                     /\ \E c \in chirps : c.id = req.chirpID /\ ValidFor(req.hdr, c.userId, req.at)
                ELSE /\ last'.status = 404
                     /\ chirps' = chirps
             /\ \A c \in chirps' : c.id # req.chirpID
             /\ req.chirpID \in retired'.ids
       /\ (/\ last'.op = "deleteChirp"
           /\ DeleteFinished = {}
           /\ last'.chirpID \in retired.ids
           /\ Authenticated(last'.hdr, now))
          => (last'.status = 404 /\ chirps' = chirps)
       /\ \A c \in chirps' \ chirps : c.id \notin retired.ids]_vars

\* the second of two deletes that had both passed the ownership test was
\* answered 404
C32_Witness ==
    /\ last.op = "deleteChirp"
    /\ "req" \in DOMAIN last
    /\ last.status = 404
    /\ last.chirpID \in retired.ids
    /\ \A c \in chirps : c.id # last.chirpID

----------------------------------------------------------------------------
(* Properties of the access tokens that the handlers mint, under Spec *)

LoginStarted == { req \in reqs' \ reqs : req.kind = "login" }

\* tok is an access token for user u that was issued at time t by "chirpy"
\* and expires 3600 seconds later
MintedFor(tok, u, t) ==
    /\ SignedWith(tok, jwtSecret)
    /\ PayloadOf(tok).iss = "chirpy"
    /\ PayloadOf(tok).sub = u
    /\ PayloadOf(tok).iat = Sec(t)
    /\ PayloadOf(tok).exp - PayloadOf(tok).iat = 3600

----------------------------------------------------------------------------
(* Properties of the deletion of users, under SpecCascade *)

\* every refresh-token record and every chirp of the tables belongs to a
\* user of the table
Referenced(us, rt, ch) ==
    /\ \A r \in rt : \E u \in us : u.id = r.userId
    /\ \A c \in ch : \E u \in us : u.id = c.userId

\* the header carries an access token, not expired at t, whose subject was
\* deleted
Outlived(hdr, t) ==
    \E id \in retired.ids \cap UserIds :
       /\ ValidFor(hdr, id, t)
       /\ \A u \in users : u.id # id

\* C31: in every reachable state every refresh-token record and every chirp
\* refers to an existing user; a reset that deletes the users leaves no
\* record and no chirp, so that afterwards a refresh token issued before is
\* not redeemed (401), and an access token that outlives its user neither
\* creates a chirp nor updates the user.
C31_RowsReferToUsers ==
    /\ [] Referenced(users, refreshTokens, chirps)
    /\ [][/\ (last'.op = "reset" /\ last'.status = 200)
             => (users' = {} /\ refreshTokens' = {} /\ chirps' = {})
          /\ \A req \in RefreshStarted :
                req.tok \in { makeRefreshToken(h) : h \in retired.tokens }
                => req.user = << >>
          /\ \A req \in RefreshAnswered :
                req.user = << >> => last'.status = 401
          /\ (last'.op = "refresh" /\ RefreshAnswered = {}) => last'.status = 401
          /\ (last'.op = "createChirp" /\ Outlived(last'.hdr, now))
             => (last'.status \in {400, 401, 403, 404, 500} /\ chirps' = chirps)
          /\ (last'.op = "updateUser" /\ Outlived(last'.hdr, now))
             => (last'.status \in {400, 401, 403, 404, 500} /\ users' = users)]_vars

\* after a reset that deleted a user, a record and a chirp, the access token
\* of the deleted user was presented with an acceptable payload to update
\* the user
C31_Witness ==
    /\ last.op = "updateUser"
    /\ last.status = 404
    /\ Outlived(last.hdr, now)
    /\ retired.tokens # {}
    /\ \E c \in ChirpIds : c \in retired.ids

----------------------------------------------------------------------------
(* Properties of the validation of chirps, under SpecBodies *)

\* the spellings of the banned words, in any case, that bodies are sent with
BannedSpellings ==
    {"kerfuffle", "sharbert", "fornax", "Sharbert", "FORNAX", "KERFUFFLE"}

\* the body is no string, is longer than 140 characters, or has a word
\* between spaces that is a banned word in some case
Unacceptable(body) ==
    \/ ~body.isString
    \/ body.length > 140
    \/ \E i \in DOMAIN body.words : body.words[i] \in BannedSpellings

\* C35: on create chirp the body is validated before the credential is
\* examined: a request whose body is no string, is longer than 140
\* characters or contains a banned word is answered 400 whether its access
\* token is valid, invalid or missing, and only a request with an acceptable
\* body is answered 401.
C35_BodyBeforeCredential ==
    last.op = "createChirp" =>
       /\ Unacceptable(last.body) => last.status = 400
       /\ last.status = 401 => ~Unacceptable(last.body)

\* a body with a banned word was refused with 400 though no token came
\* with it
C35_Witness ==
    /\ last.op = "createChirp"
    /\ last.status = 400
    /\ last.hdr = Undefined
    /\ last.body.isString
    /\ last.body.length <= 140
    /\ Unacceptable(last.body)

\* C36: in every reachable state every stored chirp has a body of at most
\* 140 characters in which no space-separated word is, ignoring case, one
\* of kerfuffle, sharbert, fornax; a request that violates either rule is
\* answered 400 and creates no chirp.
C36_StoredChirpsAcceptable ==
    /\ [] (\A c \in chirps : ~Unacceptable(c.body))
    /\ [][(last'.op = "createChirp" /\ Unacceptable(last'.body))
          => (last'.status = 400 /\ chirps' = chirps)]_vars

\* a chirp of exactly 140 characters is stored, and a chirp with a banned
\* word in capitals was refused though its token was valid
C36_Witness ==
    /\ \E c \in chirps : c.body.length = 140
    /\ last.op = "createChirp"
    /\ last.status = 400
    /\ Authenticated(last.hdr, last.at)
    /\ last.body.isString
    /\ \E i \in DOMAIN last.body.words : last.body.words[i] = "FORNAX"

====
